---- MODULE Spec2Model ----
(***************************************************************************)
(* A model of the jsrl JSON library: the exact-decimal number              *)
(* (GeneralNumber), the immutable element tree behind Json handles, the    *)
(* encoder, the parser, the comparator and the copy-on-write modification  *)
(* proxies (JMod).                                                         *)
(*                                                                         *)
(* Text is a sequence of byte values (0..255).  Digit sequences of a       *)
(* GeneralNumber are sequences of 0..9 (the C++ holds the characters       *)
(* '0'..'9').  A long double is modelled as a decimal floating value (what *)
(* strtold yields has LDBL_DIG significant digits), plus NaN and the two   *)
(* infinities.                                                             *)
(***************************************************************************)
EXTENDS Integers, Sequences, FiniteSets, TLC

\* a local variable: value is computed once and F is the code that uses it
Let(value, F(_)) ==
  F(value)

(***************************************************************************)
(* Bytes and text                                                          *)
(***************************************************************************)
Ord ==
  [c \in {"0","1","2","3","4","5","6","7","8","9","-","+",".","e","E",
          "n","a","i","f","[","]","{","}",",",":","\"","\\","u","l","t",
          "r","s","b"," ","/","*","x"} |->
   CASE c = "0" -> 48 [] c = "1" -> 49 [] c = "2" -> 50 [] c = "3" -> 51
     [] c = "4" -> 52 [] c = "5" -> 53 [] c = "6" -> 54 [] c = "7" -> 55
     [] c = "8" -> 56 [] c = "9" -> 57 [] c = "-" -> 45 [] c = "+" -> 43
     [] c = "." -> 46 [] c = "e" -> 101 [] c = "E" -> 69 [] c = "n" -> 110
     [] c = "a" -> 97 [] c = "i" -> 105 [] c = "f" -> 102 [] c = "[" -> 91
     [] c = "]" -> 93 [] c = "{" -> 123 [] c = "}" -> 125 [] c = "," -> 44
     [] c = ":" -> 58 [] c = "\"" -> 34 [] c = "\\" -> 92 [] c = "u" -> 117
     [] c = "l" -> 108 [] c = "t" -> 116 [] c = "r" -> 114 [] c = "s" -> 115
     [] c = "b" -> 98 [] c = " " -> 32 [] c = "/" -> 47 [] c = "*" -> 42
     [] c = "x" -> 120]

Txt(s) ==
  [i \in 1..Len(s) |-> Ord[s[i]]]

isdigit(b) ==
  b >= 48 /\ b <= 57

DigitsText(ds) ==
  [i \in 1..Len(ds) |-> 48 + ds[i]]

RECURSIVE NatDigits(_)
NatDigits(n) ==
  IF n < 10 THEN <<n>> ELSE Append(NatDigits(n \div 10), n % 10)

IntText(n) ==
  IF n < 0 THEN <<45>> \o DigitsText(NatDigits(-n)) ELSE DigitsText(NatDigits(n))

Zeros(k) ==
  [i \in 1..k |-> 0]

(***************************************************************************)
(* GeneralNumber                                                           *)
(***************************************************************************)
INT16_MAX ==
  32767

INT16_MIN ==
  -32768

NO_DECIMAL ==
  -1

GNError(kind) ==
  [ok |-> FALSE, err |-> kind]

GeneralNumberData ==
  [is_decimal |-> FALSE, negative |-> FALSE, exponent |-> INT16_MIN, digits |-> <<>>]

RECURSIVE LeadingZeros(_)
LeadingZeros(ds) ==
  IF ds = <<>> \/ Head(ds) # 0 THEN 0 ELSE 1 + LeadingZeros(Tail(ds))

RECURSIVE StripTrailingZeros(_)
StripTrailingZeros(ds) ==
  IF ds # <<>> /\ ds[Len(ds)] = 0
    THEN StripTrailingZeros(SubSeq(ds, 1, Len(ds) - 1))
    ELSE ds

\* the constructor without the reset of the sign of a zero
GeneralNumberCtor_signed_zero(is_decimal_, negative_, exponent_, digits_) ==
  LET shiftval == LeadingZeros(digits_)
      lopped   == SubSeq(digits_, shiftval + 1, Len(digits_))
      exp1     == exponent_ - shiftval
  IN IF shiftval > 0 /\ exponent_ < INT16_MIN + shiftval
       THEN GNError("NumberParseError")
       ELSE IF lopped = <<>>
         THEN [ok |-> TRUE,
               gn |-> [is_decimal |-> is_decimal_, negative |-> negative_,
                       exponent |-> INT16_MIN, digits |-> <<>>]]
         ELSE LET ds == StripTrailingZeros(lopped)
              IN [ok |-> TRUE,
                  gn |-> [is_decimal |-> (is_decimal_ \/ Len(ds) > exp1),
                          negative |-> negative_,
                          exponent |-> exp1, digits |-> ds]]

\* GeneralNumber::GeneralNumber(bool, bool, int16_t, vector<char>)
GeneralNumberCtor(is_decimal_, negative_, exponent_, digits_) ==
  LET shiftval == LeadingZeros(digits_)
      lopped   == SubSeq(digits_, shiftval + 1, Len(digits_))
      exp1     == exponent_ - shiftval
  IN IF shiftval > 0 /\ exponent_ < INT16_MIN + shiftval
       THEN GNError("NumberParseError")
       ELSE IF lopped = <<>>
         THEN [ok |-> TRUE,
               gn |-> [is_decimal |-> is_decimal_, negative |-> FALSE,
                       exponent |-> INT16_MIN, digits |-> <<>>]]
         ELSE LET ds == StripTrailingZeros(lopped)
              IN [ok |-> TRUE,
                  gn |-> [is_decimal |-> (is_decimal_ \/ Len(ds) > exp1),
                          negative |-> negative_,
                          exponent |-> exp1, digits |-> ds]]

\* GeneralNumber::GeneralNumber(long long unsigned)
GeneralNumberOfUnsigned(value) ==
  IF value = 0 THEN GeneralNumberData
  ELSE LET ds == NatDigits(value)
       IN [is_decimal |-> FALSE, negative |-> FALSE,
           exponent |-> Len(ds), digits |-> StripTrailingZeros(ds)]

\* GeneralNumber::GeneralNumber(long long)
GeneralNumberOfSigned(value) ==
  LET valnegative == value < 0
      mag == IF valnegative THEN -value ELSE value
  IN [GeneralNumberOfUnsigned(mag) EXCEPT !.negative = valnegative]

\* shift_exponent without its range check: the sum wraps in int16_t
shift_exponent_unchecked(exponent, shiftval) ==
  [ok |-> TRUE,
   exponent |-> ((exponent + shiftval - INT16_MIN) % (2 * (INT16_MAX + 1)))
                  + INT16_MIN]

\* shift_exponent: ok is FALSE when the sum leaves int16_t (the C++ throws)
shift_exponent(exponent, shiftval) ==
  IF exponent > INT16_MAX - shiftval
    THEN [ok |-> FALSE, exponent |-> exponent]
    ELSE [ok |-> TRUE, exponent |-> exponent + shiftval]

\* The scanning loop of GeneralNumber::parse(streambuf&).  st holds the
\* loop's locals; pos is the index of the next byte of text to read.
RECURSIVE GNScan(_, _, _)
GNScan(text, pos, st) ==
  LET eof  == pos > Len(text)
      byte == IF eof THEN -1 ELSE text[pos]
      \* leave the loop: unget the byte unless it was EOF, then finish
      finish ==
        IF st.need_digit
          THEN [ok |-> FALSE, err |-> "NumberParseError", pos |-> pos]
        ELSE IF (st.decimal_digits = NO_DECIMAL \/ st.decimal_digits > 1)
                /\ Len(st.digits) > 1 /\ st.digits[1] = 0
          THEN [ok |-> FALSE, err |-> "NumberParseError", pos |-> pos]
        ELSE LET e1 == IF st.exponentseen = "ES_NEGATIVE"
                         THEN -st.exponent ELSE st.exponent
                 e2 == shift_exponent(e1,
                         IF st.decimal_digits = NO_DECIMAL
                           THEN Len(st.digits) ELSE st.decimal_digits)
             IN IF ~e2.ok
                  THEN [ok |-> FALSE, err |-> "NumberParseError", pos |-> pos]
                  ELSE LET r == GeneralNumberCtor(st.decimal_digits # NO_DECIMAL,
                                                  st.negative, e2.exponent,
                                                  st.digits)
                       IN IF r.ok
                            THEN [ok |-> TRUE, gn |-> r.gn, pos |-> pos]
                            ELSE [ok |-> FALSE, err |-> r.err, pos |-> pos]
  IN IF eof
       THEN IF st.need_digit
              THEN [ok |-> FALSE, err |-> "BadEOFParseError", pos |-> pos]
              ELSE finish
     ELSE IF byte = 101 \/ byte = 69
       THEN IF st.exponentseen # "ES_NONE" \/ st.need_digit
              THEN finish
              ELSE GNScan(text, pos + 1,
                     [st EXCEPT !.exponentseen = "ES_EMPTY",
                                !.decimal_digits =
                                   IF @ = NO_DECIMAL THEN Len(st.digits) ELSE @,
                                !.need_digit = TRUE])
     ELSE IF byte = 43 \/ byte = 45
       THEN IF st.exponentseen # "ES_EMPTY"
              THEN finish
              ELSE GNScan(text, pos + 1,
                     [st EXCEPT !.exponentseen =
                                   IF byte = 43 THEN "ES_POSITIVE_EMPTY"
                                                ELSE "ES_NEGATIVE_EMPTY",
                                !.need_digit = TRUE])
     ELSE IF byte = 46
       THEN IF st.decimal_digits # NO_DECIMAL \/ st.need_digit
              THEN finish
              ELSE GNScan(text, pos + 1,
                     [st EXCEPT !.decimal_digits = Len(st.digits),
                                !.need_digit = TRUE])
     ELSE IF ~isdigit(byte)
       THEN finish
     ELSE IF st.exponentseen = "ES_NONE"
       THEN GNScan(text, pos + 1,
              [st EXCEPT !.digits = Append(@, byte - 48), !.need_digit = FALSE])
     ELSE LET new_exponent == st.exponent * 10 + (byte - 48)
              seen == IF st.exponentseen \in {"ES_EMPTY", "ES_POSITIVE_EMPTY"}
                        THEN "ES_POSITIVE"
                      ELSE IF st.exponentseen = "ES_NEGATIVE_EMPTY"
                        THEN "ES_NEGATIVE"
                      ELSE st.exponentseen
          IN IF new_exponent > INT16_MAX
               THEN [ok |-> FALSE, err |-> "NumberParseError", pos |-> pos + 1]
               ELSE GNScan(text, pos + 1,
                      [st EXCEPT !.exponentseen = seen,
                                 !.exponent = new_exponent,
                                 !.need_digit = FALSE])

\* a parse that notices the sign and leaves it in the stream
GNParseAt_sign_unread(text, pos) ==
  IF pos > Len(text)
    THEN [ok |-> FALSE, err |-> "BadEOFParseError", pos |-> pos]
    ELSE GNScan(text, pos,
                [negative |-> text[pos] = 45, digits |-> <<>>,
                 decimal_digits |-> NO_DECIMAL, exponentseen |-> "ES_NONE",
                 exponent |-> 0, need_digit |-> TRUE])

\* GeneralNumber::parse(streambuf&), reading text from index pos
GNParseAt(text, pos) ==
  IF pos > Len(text)
    THEN [ok |-> FALSE, err |-> "BadEOFParseError", pos |-> pos]
    ELSE LET negative == text[pos] = 45
         IN GNScan(text, IF negative THEN pos + 1 ELSE pos,
                   [negative |-> negative, digits |-> <<>>,
                    decimal_digits |-> NO_DECIMAL, exponentseen |-> "ES_NONE",
                    exponent |-> 0, need_digit |-> TRUE])

\* GeneralNumber::parse(string const&): the whole text must be consumed
GNParse(text) ==
  Let(GNParseAt(text, 1), LAMBDA r :
     IF r.ok /\ r.pos <= Len(text)
       THEN [ok |-> FALSE, err |-> "NumberParseError", pos |-> r.pos]
       ELSE r)

\* operator<<(ostream&, GeneralNumber const&)
GNText(g) ==
  IF g.digits = <<>>
    THEN IF g.is_decimal THEN Txt(<<"0", ".", "0">>) ELSE Txt(<<"0">>)
    ELSE (IF g.negative THEN <<45>> ELSE <<>>) \o
         (IF g.is_decimal \/ g.exponent < Len(g.digits)
            THEN <<48 + g.digits[1], 46>> \o
                 (IF Len(g.digits) = 1 THEN <<48>>
                    ELSE DigitsText(Tail(g.digits))) \o
                 (IF g.exponent # 1
                    THEN <<101>> \o IntText(g.exponent - 1) ELSE <<>>)
            ELSE [i \in 1..g.exponent |->
                    IF i <= Len(g.digits) THEN 48 + g.digits[i] ELSE 48])

\* cmp3wayMag
RECURSIVE CmpDigits(_, _)
CmpDigits(l, r) ==
  IF l = <<>> THEN (IF r = <<>> THEN 0 ELSE -1)
  ELSE IF r = <<>> THEN 1
  ELSE IF Head(l) # Head(r) THEN (IF Head(l) < Head(r) THEN -1 ELSE 1)
  ELSE CmpDigits(Tail(l), Tail(r))

cmp3wayMag(lhs, rhs) ==
  IF lhs.exponent # rhs.exponent
    THEN (IF lhs.exponent < rhs.exponent THEN -1 ELSE 1)
    ELSE CmpDigits(lhs.digits, rhs.digits)

cmp3way(lhs, rhs) ==
  IF lhs.negative # rhs.negative
    THEN (IF lhs.negative THEN -1 ELSE 1)
    ELSE LET result == (IF lhs.negative THEN -1 ELSE 1) * cmp3wayMag(lhs, rhs)
         IN IF result = 0 /\ lhs.is_decimal # rhs.is_decimal
              THEN (IF lhs.is_decimal THEN 1 ELSE -1)
              ELSE result

(***************************************************************************)
(* long double.  A finite value is [cls |-> "fin", neg, digits, exponent]  *)
(* with value 0.d1d2... * 10^exponent, digits without leading or trailing  *)
(* zeros (zero has no digits).  Conversions from text round to LDBL_DIG     *)
(* digits; a value given to a constructor carries the digits of its exact  *)
(* expansion; output rounds to the precision.                              *)
(***************************************************************************)
LDBL_DIG ==
  18

LDBL_MAX_DIGITS10 ==
  21

FloatZero ==
  [cls |-> "fin", neg |-> FALSE, digits |-> <<>>, exponent |-> 0]

FloatNaN ==
  [cls |-> "nan", neg |-> FALSE, digits |-> <<>>, exponent |-> 0]

FloatInf(neg) ==
  [cls |-> "inf", neg |-> neg, digits |-> <<>>, exponent |-> 0]

RECURSIVE IncDigits(_)
\* add one unit in the last place; <<>> when every digit was 9
IncDigits(ds) ==
  IF ds = <<>> THEN <<>>
  ELSE IF ds[Len(ds)] < 9 THEN [ds EXCEPT ![Len(ds)] = @ + 1]
  ELSE LET up == IncDigits(SubSeq(ds, 1, Len(ds) - 1))
       IN IF up = <<>> THEN <<>> ELSE Append(up, 0)

\* round a digit run to p significant digits, ties to even
RoundDigits(ds, exponent, p) ==
  IF Len(ds) <= p THEN [digits |-> ds, exponent |-> exponent]
  ELSE LET head == SubSeq(ds, 1, p)
           rest == SubSeq(ds, p + 1, Len(ds))
           tail_nonzero == \E i \in 2..Len(rest) : rest[i] # 0
           up == rest[1] > 5
                 \/ (rest[1] = 5 /\ (tail_nonzero \/ head[p] % 2 = 1))
           inc == IncDigits(head)
       IN IF ~up THEN [digits |-> StripTrailingZeros(head), exponent |-> exponent]
          ELSE IF inc = <<>> THEN [digits |-> <<1>>, exponent |-> exponent + 1]
          ELSE [digits |-> StripTrailingZeros(inc), exponent |-> exponent]

\* strtold on a decimal literal: the nearest representable value
strtold(text) ==
  LET r == GNParseAt(text, 1)
      rd == RoundDigits(r.gn.digits, r.gn.exponent, LDBL_DIG)
  IN IF ~r.ok THEN FloatZero
     ELSE IF r.gn.digits = <<>> THEN FloatZero
     ELSE [cls |-> "fin", neg |-> r.gn.negative,
           digits |-> rd.digits, exponent |-> rd.exponent]

\* GeneralNumber::as_long_double
as_long_double(g) ==
  strtold(GNText(g))

\* long double from an integer (exact for the integers of the model)
LongDoubleOfInt(n) ==
  IF n = 0 THEN FloatZero
  ELSE LET ds == NatDigits(IF n < 0 THEN -n ELSE n)
           rd == RoundDigits(StripTrailingZeros(ds), Len(ds), LDBL_DIG)
       IN [cls |-> "fin", neg |-> n < 0, digits |-> rd.digits,
           exponent |-> rd.exponent]

RECURSIVE DigitsNat(_)
DigitsNat(ds) ==
  IF ds = <<>> THEN 0 ELSE DigitsNat(SubSeq(ds, 1, Len(ds) - 1)) * 10 + ds[Len(ds)]

\* static_cast<long long>(long double): truncation toward zero
TruncLongDouble(f) ==
  IF f.cls # "fin" \/ f.exponent <= 0 THEN 0
  ELSE LET ip == [i \in 1..f.exponent |->
                    IF i <= Len(f.digits) THEN f.digits[i] ELSE 0]
       IN IF f.neg THEN -DigitsNat(ip) ELSE DigitsNat(ip)

\* operator< on long double (false whenever an operand is NaN)
LongDoubleLess(l, r) ==
  IF l.cls = "nan" \/ r.cls = "nan" THEN FALSE
  ELSE IF l.cls = "inf" THEN l.neg /\ ~(r.cls = "inf" /\ r.neg)
  ELSE IF r.cls = "inf" THEN ~r.neg
  ELSE LET lz == l.digits = <<>>
           rz == r.digits = <<>>
       IN IF lz /\ rz THEN FALSE
          ELSE IF lz THEN ~r.neg
          ELSE IF rz THEN l.neg
          ELSE IF l.neg # r.neg THEN l.neg
          ELSE LET m == cmp3wayMag(l, r)
               IN IF l.neg THEN m > 0 ELSE m < 0

\* operator== on long double
LongDoubleEq(l, r) ==
  /\ l.cls # "nan"
  /\ r.cls # "nan"
  /\ ~LongDoubleLess(l, r)
  /\ ~LongDoubleLess(r, l)

\* ostream << long double with the given precision (default floatfield,
\* the "%g" conversion), with or without ios::showpoint
LongDoubleText(f, precision, showpoint) ==
  IF f.cls = "nan" THEN Txt(<<"n", "a", "n">>)
  ELSE IF f.cls = "inf"
    THEN (IF f.neg THEN <<45>> ELSE <<>>) \o Txt(<<"i", "n", "f">>)
  ELSE IF f.digits = <<>>
    THEN IF showpoint
           THEN <<48, 46>> \o DigitsText(Zeros(precision - 1))
           ELSE <<48>>
  ELSE LET P  == IF precision = 0 THEN 1 ELSE precision
           rd == RoundDigits(f.digits, f.exponent, P)
           ds == IF showpoint
                   THEN rd.digits \o Zeros(P - Len(rd.digits))
                   ELSE rd.digits
           X  == rd.exponent - 1
           sign == IF f.neg THEN <<45>> ELSE <<>>
           absX == IF X < 0 THEN -X ELSE X
           expo == <<101, (IF X < 0 THEN 45 ELSE 43)>> \o
                   (IF absX < 10 THEN <<48>> ELSE <<>>) \o
                   DigitsText(NatDigits(absX))
       IN IF X < -4 \/ X >= P
            THEN sign \o <<48 + ds[1]>> \o
                 (IF Len(ds) > 1 \/ showpoint THEN <<46>> ELSE <<>>) \o
                 DigitsText(Tail(ds)) \o expo
          ELSE IF X >= 0
            THEN sign \o
                 DigitsText([i \in 1..(X + 1) |->
                               IF i <= Len(ds) THEN ds[i] ELSE 0]) \o
                 (IF Len(ds) > X + 1 \/ showpoint THEN <<46>> ELSE <<>>) \o
                 DigitsText(SubSeq(ds, X + 2, Len(ds)))
          ELSE sign \o <<48, 46>> \o DigitsText(Zeros(absX - 1)) \o
               DigitsText(ds)

\* GeneralNumber::GeneralNumber(long double): ok is FALSE when parse throws
GeneralNumberOfLongDouble(value) ==
  GNParse(LongDoubleText(value, LDBL_MAX_DIGITS10, TRUE))

(***************************************************************************)
(* Values.  An element is a record; id is its allocation (0 is the null    *)
(* singleton), tt its detailed TypeTag, and the payload field of its kind  *)
(* is the only one that is read.                                           *)
(***************************************************************************)
TT_NULL ==
  0

TT_BOOL ==
  1

TT_NUMBER ==
  2

TT_NUMBER_GENERAL ==
  3

TT_NUMBER_INTEGER ==
  4

TT_NUMBER_INTEGER_UNSIGNED ==
  5

TT_STRING ==
  6

TT_ARRAY ==
  7

TT_OBJECT ==
  8

\* JSONElementNull::instance(): the one null element, never allocated
JSONElementNull ==
  [id |-> 0, tt |-> TT_NULL, b |-> FALSE, n |-> 0, f |-> FloatZero,
   sigdigs |-> 0, g |-> GeneralNumberData, s |-> <<>>, keys |-> <<>>,
   elems |-> <<>>]

JSONElementBool(id, value) ==
  [JSONElementNull EXCEPT !.id = id, !.tt = TT_BOOL, !.b = value]

JSONElementNumberIntegerUint(id, value) ==
  [JSONElementNull EXCEPT !.id = id, !.tt = TT_NUMBER_INTEGER_UNSIGNED,
                          !.n = value]

JSONElementNumberInteger(id, value) ==
  [JSONElementNull EXCEPT !.id = id, !.tt = TT_NUMBER_INTEGER, !.n = value]

JSONElementNumberDouble(id, value, sigdigs) ==
  [JSONElementNull EXCEPT !.id = id, !.tt = TT_NUMBER, !.f = value,
                          !.sigdigs = sigdigs]

JSONElementNumberGeneral(id, value) ==
  [JSONElementNull EXCEPT !.id = id, !.tt = TT_NUMBER_GENERAL, !.g = value]

JSONElementString(id, value) ==
  [JSONElementNull EXCEPT !.id = id, !.tt = TT_STRING, !.s = value]

JSONElementArray(id, value) ==
  [JSONElementNull EXCEPT !.id = id, !.tt = TT_ARRAY, !.elems = value]

\* Json(long long): a negative value is held signed, any other unsigned
make_signed_integer_element(id, value) ==
  IF value < 0 THEN JSONElementNumberInteger(id, value)
  ELSE JSONElementNumberIntegerUint(id, value)

\* get_typetag(detailed): the coarse tag folds the number kinds together
get_typetag(v, detailed) ==
  IF ~detailed /\ v.tt \in {TT_NUMBER_GENERAL, TT_NUMBER_INTEGER,
                            TT_NUMBER_INTEGER_UNSIGNED}
    THEN TT_NUMBER
    ELSE v.tt

(***************************************************************************)
(* Byte strings.  std::string compares bytes as unsigned; a plain char is  *)
(* signed in the build modelled (x86-64).                                  *)
(***************************************************************************)
RECURSIVE StringLess(_, _)
\* std::string operator< (char_traits<char>::lt compares unsigned char)
StringLess(l, r) ==
  IF r = <<>> THEN FALSE
  ELSE IF l = <<>> THEN TRUE
  ELSE IF l[1] # r[1] THEN l[1] < r[1]
  ELSE StringLess(Tail(l), Tail(r))

\* the value of a byte held in a plain char
CharValue(byte) ==
  IF byte >= 128 THEN byte - 256 ELSE byte

RECURSIVE JSONElementString_v_compare(_, _)
JSONElementString_v_compare(l, r) ==
  IF l = <<>> THEN (IF r = <<>> THEN 0 ELSE -1)
  ELSE IF r = <<>> THEN 1
  ELSE IF l[1] # r[1]
    THEN (IF CharValue(l[1]) < CharValue(r[1]) THEN -1 ELSE 1)
  ELSE JSONElementString_v_compare(Tail(l), Tail(r))

(***************************************************************************)
(* Object canonicalisation.                                                *)
(***************************************************************************)
is_strictly_ascending(keys) ==
  \A i \in 1..(Len(keys) - 1) : StringLess(keys[i], keys[i + 1])

Reverse(sq) ==
  [i \in 1..Len(sq) |-> sq[Len(sq) + 1 - i]]

RECURSIVE InsertStable(_, _)
\* insert a pair after every pair whose key is not greater (stable)
InsertStable(sorted, pr) ==
  IF sorted = <<>> THEN <<pr>>
  ELSE IF StringLess(pr.key, sorted[1].key) THEN <<pr>> \o sorted
  ELSE <<sorted[1]>> \o InsertStable(Tail(sorted), pr)

RECURSIVE stable_sort(_)
stable_sort(prs) ==
  IF prs = <<>> THEN <<>>
  ELSE InsertStable(stable_sort(SubSeq(prs, 1, Len(prs) - 1)), prs[Len(prs)])

RECURSIVE unique(_)
\* std::unique: of each run of equal keys the first pair stays
unique(prs) ==
  IF Len(prs) <= 1 THEN prs
  ELSE LET rest == unique(Tail(prs))
       IN IF prs[1].key = rest[1].key THEN <<prs[1]>> \o Tail(rest)
          ELSE <<prs[1]>> \o rest

\* a constructor that stores the body as given
resort_as_given(body) ==
  body

\* a canonicalisation that sorts without reversing first
resort_first_wins(body) ==
  unique(stable_sort(body))

\* resort, on a body given as a sequence of [key, val] pairs
resort(body) ==
  IF is_strictly_ascending([i \in 1..Len(body) |-> body[i].key]) THEN body
  ELSE unique(stable_sort(Reverse(body)))

\* JSONElementObject::JSONElementObject
JSONElementObject(id, body) ==
  Let(resort(body), LAMBDA m_value :
     [JSONElementNull EXCEPT
        !.id = id, !.tt = TT_OBJECT,
        !.keys = [i \in 1..Len(m_value) |-> m_value[i].key],
        !.elems = [i \in 1..Len(m_value) |-> m_value[i].val]])

\* an object's body as the pair sequence as_object exposes
as_object(v) ==
  [i \in 1..Len(v.keys) |-> [key |-> v.keys[i], val |-> v.elems[i]]]

(***************************************************************************)
(* The comparator.  A result is -1, 0 or 1; TERMINATED stands for an       *)
(* exception that escapes the noexcept s_compare (std::terminate).         *)
(***************************************************************************)
TERMINATED ==
  99

Negate(result) ==
  IF result = TERMINATED THEN TERMINATED ELSE -result

\* json_number_compare on two integers of one signedness
json_number_compare_int(lhs, rhs) ==
  IF lhs < rhs THEN -1 ELSE IF lhs > rhs THEN 1 ELSE 0

json_number_compare_float(lhs, rhs) ==
  IF lhs.cls = "nan" THEN (IF rhs.cls = "nan" THEN 0 ELSE 1)
  ELSE IF rhs.cls = "nan" THEN -1
  ELSE IF LongDoubleLess(lhs, rhs) THEN -1
  ELSE IF LongDoubleLess(rhs, lhs) THEN 1
  ELSE 0

json_number_compare_uint_sint(lhs, rhs) ==
  IF rhs < 0 THEN 1 ELSE json_number_compare_int(lhs, rhs)

\* long double against an integer of either signedness.  The cast of lhs to
\* the integer type is only read when lhs equals the converted rhs, where it
\* is exact.
json_number_compare_float_int(lhs, rhs) ==
  LET rhs_ld == LongDoubleOfInt(rhs)
      lhs_ll == TruncLongDouble(lhs)
  IN IF ~LongDoubleEq(lhs, rhs_ld)
       THEN (IF LongDoubleLess(lhs, rhs_ld) THEN -1 ELSE 1)
     ELSE IF lhs_ll # rhs
       THEN (IF lhs_ll < rhs THEN -1 ELSE 1)
     ELSE 1

\* GeneralNumber against a long double: GeneralNumber(rhs) may throw
json_number_compare_general_float(lhs, rhs) ==
  Let(GeneralNumberOfLongDouble(rhs), LAMBDA r :
     IF r.ok THEN cmp3way(lhs, r.gn) ELSE TERMINATED)

json_number_compare_general_sint(lhs, rhs) ==
  cmp3way(lhs, GeneralNumberOfSigned(rhs))

json_number_compare_general_uint(lhs, rhs) ==
  cmp3way(lhs, GeneralNumberOfUnsigned(rhs))

\* s_compare_helper with the v_compare of the four number elements: the
\* overload is chosen by the two detailed tags
s_compare_helper(l, r) ==
  CASE l.tt = TT_NUMBER_INTEGER_UNSIGNED /\ r.tt = TT_NUMBER_INTEGER_UNSIGNED ->
         json_number_compare_int(l.n, r.n)
    [] l.tt = TT_NUMBER_INTEGER_UNSIGNED /\ r.tt = TT_NUMBER_INTEGER ->
         json_number_compare_uint_sint(l.n, r.n)
    [] l.tt = TT_NUMBER_INTEGER_UNSIGNED /\ r.tt = TT_NUMBER_GENERAL ->
         Negate(json_number_compare_general_uint(r.g, l.n))
    [] l.tt = TT_NUMBER_INTEGER_UNSIGNED /\ r.tt = TT_NUMBER ->
         Negate(json_number_compare_float_int(r.f, l.n))
    [] l.tt = TT_NUMBER_INTEGER /\ r.tt = TT_NUMBER_INTEGER_UNSIGNED ->
         Negate(json_number_compare_uint_sint(r.n, l.n))
    [] l.tt = TT_NUMBER_INTEGER /\ r.tt = TT_NUMBER_INTEGER ->
         json_number_compare_int(l.n, r.n)
    [] l.tt = TT_NUMBER_INTEGER /\ r.tt = TT_NUMBER_GENERAL ->
         Negate(json_number_compare_general_sint(r.g, l.n))
    [] l.tt = TT_NUMBER_INTEGER /\ r.tt = TT_NUMBER ->
         Negate(json_number_compare_float_int(r.f, l.n))
    [] l.tt = TT_NUMBER_GENERAL /\ r.tt = TT_NUMBER_INTEGER_UNSIGNED ->
         json_number_compare_general_uint(l.g, r.n)
    [] l.tt = TT_NUMBER_GENERAL /\ r.tt = TT_NUMBER_INTEGER ->
         json_number_compare_general_sint(l.g, r.n)
    [] l.tt = TT_NUMBER_GENERAL /\ r.tt = TT_NUMBER_GENERAL ->
         cmp3way(l.g, r.g)
    [] l.tt = TT_NUMBER_GENERAL /\ r.tt = TT_NUMBER ->
         json_number_compare_general_float(l.g, r.f)
    [] l.tt = TT_NUMBER /\ r.tt = TT_NUMBER_INTEGER_UNSIGNED ->
         json_number_compare_float_int(l.f, r.n)
    [] l.tt = TT_NUMBER /\ r.tt = TT_NUMBER_INTEGER ->
         json_number_compare_float_int(l.f, r.n)
    [] l.tt = TT_NUMBER /\ r.tt = TT_NUMBER_GENERAL ->
         Negate(json_number_compare_general_float(r.g, l.f))
    [] l.tt = TT_NUMBER /\ r.tt = TT_NUMBER ->
         json_number_compare_float(l.f, r.f)

JSONElementBool_v_compare(l, r) ==
  (IF l.b THEN 1 ELSE 0) - (IF r.b THEN 1 ELSE 0)

RECURSIVE s_compare(_, _)
RECURSIVE JSONElementArray_v_compare(_, _, _)
RECURSIVE JSONElementObject_v_compare(_, _, _)

\* the loop of JSONElementArray::v_compare from position i on
JSONElementArray_v_compare(l, r, i) ==
  IF i > Len(l.elems) THEN (IF i > Len(r.elems) THEN 0 ELSE -1)
  ELSE IF i > Len(r.elems) THEN 1
  ELSE LET result == s_compare(l.elems[i], r.elems[i])
       IN IF result # 0 THEN result
          ELSE JSONElementArray_v_compare(l, r, i + 1)

\* the loop of JSONElementObject::v_compare from position i on
JSONElementObject_v_compare(l, r, i) ==
  IF i > Len(l.elems) THEN (IF i > Len(r.elems) THEN 0 ELSE -1)
  ELSE IF i > Len(r.elems) THEN 1
  ELSE IF l.keys[i] # r.keys[i]
    THEN (IF StringLess(l.keys[i], r.keys[i]) THEN -1 ELSE 1)
  ELSE LET result == s_compare(l.elems[i], r.elems[i])
       IN IF result # 0 THEN result
          ELSE JSONElementObject_v_compare(l, r, i + 1)

\* Json::s_compare
s_compare(lhs, rhs) ==
  LET lhs_tt == get_typetag(lhs, FALSE)
      rhs_tt == get_typetag(rhs, FALSE)
  IN IF lhs.id = rhs.id THEN 0
     ELSE IF lhs_tt = rhs_tt
       THEN CASE lhs_tt = TT_NULL -> 0
              [] lhs_tt = TT_BOOL -> JSONElementBool_v_compare(lhs, rhs)
              [] lhs_tt = TT_NUMBER -> s_compare_helper(lhs, rhs)
              [] lhs_tt = TT_STRING -> JSONElementString_v_compare(lhs.s, rhs.s)
              [] lhs_tt = TT_ARRAY -> JSONElementArray_v_compare(lhs, rhs, 1)
              [] lhs_tt = TT_OBJECT -> JSONElementObject_v_compare(lhs, rhs, 1)
     ELSE IF lhs_tt < rhs_tt THEN -1 ELSE 1

\* operator==, !=, <, >, <=, >= on Json
operator_eq(lhs, rhs) ==
  s_compare(lhs, rhs) = 0

operator_ne(lhs, rhs) ==
  s_compare(lhs, rhs) # 0

operator_lt(lhs, rhs) ==
  s_compare(lhs, rhs) < 0

operator_gt(lhs, rhs) ==
  s_compare(lhs, rhs) > 0

operator_le(lhs, rhs) ==
  s_compare(lhs, rhs) <= 0

operator_ge(lhs, rhs) ==
  s_compare(lhs, rhs) >= 0

(***************************************************************************)
(* Encoding.  A write yields [err, text]; err is "" unless it threw.       *)
(***************************************************************************)
HexDigit(d) ==
  IF d < 10 THEN 48 + d ELSE 97 + (d - 10)

\* a write_codeunit that leaves the stream's width alone: the digits are
\* not padded to four
write_codeunit_unpadded(codeunit) ==
  <<92, 117>>
  \o (IF codeunit >= 4096 THEN <<HexDigit((codeunit \div 4096) % 16)>> ELSE <<>>)
  \o (IF codeunit >= 256 THEN <<HexDigit((codeunit \div 256) % 16)>> ELSE <<>>)
  \o (IF codeunit >= 16 THEN <<HexDigit((codeunit \div 16) % 16)>> ELSE <<>>)
  \o <<HexDigit(codeunit % 16)>>

\* write_codeunit: backslash, u and four lower-case hex digits
write_codeunit(codeunit) ==
  <<92, 117, HexDigit((codeunit \div 4096) % 16),
    HexDigit((codeunit \div 256) % 16), HexDigit((codeunit \div 16) % 16),
    HexDigit(codeunit % 16)>>

byte_is_utf8_continuation(byte) ==
  byte \div 64 = 2

RECURSIVE scan_continuation_bytes(_, _, _, _)
\* yields [err, codepoint, cur]; cur is the next position to read
scan_continuation_bytes(primer, count, value, cur) ==
  IF count = 0 THEN [err |-> "", codepoint |-> primer, cur |-> cur]
  ELSE IF cur > Len(value)
    THEN [err |-> "EncodeByteError", codepoint |-> 0, cur |-> cur]
  ELSE IF ~byte_is_utf8_continuation(value[cur])
    THEN [err |-> "EncodeByteError", codepoint |-> 0, cur |-> cur]
  ELSE scan_continuation_bytes(primer * 64 + (value[cur] % 64), count - 1,
                               value, cur + 1)

scan_utf8_codepoint(value, cur) ==
  LET byte == value[cur]
  IN IF byte < 128 THEN [err |-> "", codepoint |-> byte, cur |-> cur + 1]
     ELSE IF byte < 192
       THEN [err |-> "EncodeByteError", codepoint |-> 0, cur |-> cur + 1]
     ELSE IF byte < 224
       THEN scan_continuation_bytes(byte % 32, 1, value, cur + 1)
     ELSE IF byte < 240
       THEN scan_continuation_bytes(byte % 16, 2, value, cur + 1)
     ELSE IF byte < 248
       THEN scan_continuation_bytes(byte % 8, 3, value, cur + 1)
     ELSE [err |-> "EncodeByteError", codepoint |-> 0, cur |-> cur + 1]

scan_valid_utf8_codepoint(value, cur) ==
  Let(scan_utf8_codepoint(value, cur), LAMBDA r :
     IF r.err # "" THEN r
     ELSE IF r.codepoint >= 55296 /\ r.codepoint > 1114111
       THEN [r EXCEPT !.err = "EncodeCodepointError"]
     ELSE IF r.codepoint >= 55296 /\ r.codepoint <= 57343
       THEN [r EXCEPT !.err = "EncodeCodepointError"]
     ELSE r)

RECURSIVE SkipContinuation(_, _)
SkipContinuation(value, cur) ==
  IF cur <= Len(value) /\ byte_is_utf8_continuation(value[cur])
    THEN SkipContinuation(value, cur + 1)
    ELSE cur

scan_replace_valid_utf8_codepoint(value, cur, fail_bad_utf8) ==
  Let(scan_valid_utf8_codepoint(value, cur), LAMBDA r :
     IF r.err = "" \/ fail_bad_utf8 THEN r
     ELSE IF r.err = "EncodeByteError"
       THEN [err |-> "", codepoint |-> 65533,
             cur |-> SkipContinuation(value, r.cur)]
     ELSE [err |-> "", codepoint |-> 65533, cur |-> r.cur])

\* validate_utf8: TRUE iff no scan throws
RECURSIVE validate_utf8(_, _)
validate_utf8(value, cur) ==
  IF cur > Len(value) THEN TRUE
  ELSE LET r == scan_valid_utf8_codepoint(value, cur)
       IN r.err = "" /\ validate_utf8(value, r.cur)

RECURSIVE write_JSON_string_UTF(_, _, _, _, _)
\* the loop of write_JSON_string_UTF<WRITE_UTF> from cur on, after ost
write_JSON_string_UTF(WRITE_UTF, value, cur, fail_bad_utf8, ost) ==
  IF cur > Len(value) THEN [err |-> "", text |-> ost \o <<34>>]
  ELSE LET c == value[cur]
           simple == CASE c = 92 -> <<92, 92>>
                       [] c = 34 -> <<92, 34>>
                       [] c = 8  -> <<92, 98>>
                       [] c = 12 -> <<92, 102>>
                       [] c = 10 -> <<92, 110>>
                       [] c = 13 -> <<92, 114>>
                       [] c = 9  -> <<92, 116>>
                       [] OTHER  -> <<>>
           r == scan_replace_valid_utf8_codepoint(value, cur, fail_bad_utf8)
           cp == r.codepoint
           mod_codepoint == cp - 65536
           out == IF cp < 32 THEN write_codeunit(cp)
                  ELSE IF WRITE_UTF THEN SubSeq(value, cur, r.cur - 1)
                  ELSE IF cp < 128 THEN <<cp>>
                  ELSE IF cp <= 65535 THEN write_codeunit(cp)
                  ELSE write_codeunit(55296 + ((mod_codepoint \div 1024) % 1024))
                       \o write_codeunit(56320 + (mod_codepoint % 1024))
       IN IF simple # <<>>
            THEN write_JSON_string_UTF(WRITE_UTF, value, cur + 1,
                                       fail_bad_utf8, ost \o simple)
          ELSE IF r.err # "" THEN [err |-> r.err, text |-> ost]
          ELSE write_JSON_string_UTF(WRITE_UTF, value, r.cur, fail_bad_utf8,
                                     ost \o out)

\* Json::write_JSON_string
write_JSON_string(value, fail_bad_utf8, write_utf) ==
  write_JSON_string_UTF(write_utf, value, 1, fail_bad_utf8, <<34>>)

\* EncodeOptions: tightness, fail_bad_utf8, write_utf
EncodeOptions(tightness, fail_bad_utf8, write_utf) ==
  [tightness |-> tightness, fail_bad_utf8 |-> fail_bad_utf8,
   write_utf |-> write_utf]

\* JSONElementNumberDouble::s_encode_options_digits10
s_encode_options_digits10(encode_options) ==
  CASE encode_options.tightness = "TN_FLOAT" -> 6
    [] encode_options.tightness = "TN_DOUBLE" -> 15
    [] encode_options.tightness = "TN_LONG_DOUBLE" -> LDBL_DIG
    [] OTHER -> LDBL_MAX_DIGITS10

JSONElementNumberDouble_v_write(v, encode_options) ==
  LET digits10 == IF v.sigdigs # 0 THEN v.sigdigs
                  ELSE s_encode_options_digits10(encode_options)
  IN LongDoubleText(v.f, digits10, FALSE)

RECURSIVE p_write(_, _)
RECURSIVE WriteItems(_, _, _, _)

\* the loop of JSONElementArray::v_write and JSONElementObject::v_write from
\* element i on, after ost
WriteItems(v, i, encode_options, ost) ==
  IF i > Len(v.elems) THEN [err |-> "", text |-> ost]
  ELSE LET sep == IF i = 1 THEN <<>> ELSE <<44>>
           k == IF v.tt = TT_OBJECT
                  THEN write_JSON_string(v.keys[i],
                                         encode_options.fail_bad_utf8,
                                         encode_options.write_utf)
                  ELSE [err |-> "", text |-> <<>>]
           e == p_write(v.elems[i], encode_options)
       IN IF k.err # "" THEN k
          ELSE IF e.err # "" THEN e
          ELSE WriteItems(v, i + 1, encode_options,
                          ost \o sep \o k.text \o
                          (IF v.tt = TT_OBJECT THEN <<58>> ELSE <<>>) \o e.text)

\* Json::p_write with the v_write of every element kind
p_write(v, encode_options) ==
  CASE v.tt = TT_NULL -> [err |-> "", text |-> Txt(<<"n", "u", "l", "l">>)]
    [] v.tt = TT_BOOL ->
         [err |-> "",
          text |-> IF v.b THEN Txt(<<"t", "r", "u", "e">>)
                   ELSE Txt(<<"f", "a", "l", "s", "e">>)]
    [] v.tt \in {TT_NUMBER_INTEGER, TT_NUMBER_INTEGER_UNSIGNED} ->
         [err |-> "", text |-> IntText(v.n)]
    [] v.tt = TT_NUMBER ->
         [err |-> "", text |-> JSONElementNumberDouble_v_write(v, encode_options)]
    [] v.tt = TT_NUMBER_GENERAL -> [err |-> "", text |-> GNText(v.g)]
    [] v.tt = TT_STRING ->
         write_JSON_string(v.s, encode_options.fail_bad_utf8,
                           encode_options.write_utf)
    [] v.tt = TT_ARRAY ->
         LET r == WriteItems(v, 1, encode_options, <<91>>)
         IN IF r.err # "" THEN r ELSE [r EXCEPT !.text = @ \o <<93>>]
    [] v.tt = TT_OBJECT ->
         LET r == WriteItems(v, 1, encode_options, <<123>>)
         IN IF r.err # "" THEN r ELSE [r EXCEPT !.text = @ \o <<125>>]

\* encode(json): string_convert through operator<<, exact mode
encode(json) ==
  p_write(json, EncodeOptions("TN_EXACT", FALSE, FALSE))

(***************************************************************************)
(* Parsing.  The input is a byte sequence with a read position (the        *)
(* streambuf); sbumpc at the end yields EOF and leaves the position.  A    *)
(* read yields [err, ..., pos]; err is "" unless it threw.                 *)
(***************************************************************************)
EOF ==
  -1

sbumpc(text, pos) ==
  IF pos > Len(text) THEN EOF ELSE text[pos]

isspace(byte) ==
  byte = 32 \/ (byte >= 9 /\ byte <= 13)

isalnum(byte) ==
  \/ isdigit(byte)
  \/ (byte >= 65 /\ byte <= 90)
  \/ (byte >= 97 /\ byte <= 122)

RECURSIVE LineComment(_, _)
\* the do-while of the line comment: pos after the newline, or 0 at EOF
LineComment(text, pos) ==
  IF pos > Len(text) THEN 0
  ELSE IF text[pos] = 10 THEN pos + 1
  ELSE LineComment(text, pos + 1)

RECURSIVE BlockComment(_, _, _)
\* the loop of the block comment: pos after the closing slash, or 0 at EOF
BlockComment(text, pos, lastbyte) ==
  IF pos > Len(text) THEN 0
  ELSE IF text[pos] = 47 /\ lastbyte = 42 THEN pos + 1
  ELSE BlockComment(text, pos + 1, text[pos])

RECURSIVE get_nonspace_byte_plain(_, _)
\* the next byte that is not whitespace, a '/' taken as any other byte
get_nonspace_byte_plain(text, pos) ==
  LET byte == sbumpc(text, pos)
  IN IF byte = EOF THEN [err |-> "", byte |-> EOF, pos |-> pos]
     ELSE IF isspace(byte) THEN get_nonspace_byte_plain(text, pos + 1)
     ELSE [err |-> "", byte |-> byte, pos |-> pos + 1]

RECURSIVE jsrl_get_nonspace_byte(_, _)
\* yields [err, byte, pos]
jsrl_get_nonspace_byte(text, pos) ==
  LET byte == sbumpc(text, pos)
      byte2 == sbumpc(text, pos + 1)
  IN IF byte = EOF THEN [err |-> "", byte |-> EOF, pos |-> pos]
     ELSE IF isspace(byte) THEN jsrl_get_nonspace_byte(text, pos + 1)
     ELSE IF byte # 47 THEN [err |-> "", byte |-> byte, pos |-> pos + 1]
     ELSE IF byte2 = EOF
       THEN [err |-> "BadEOFParseError", byte |-> EOF, pos |-> pos + 1]
     ELSE IF byte2 = 47
       THEN LET e == LineComment(text, pos + 2)
            IN IF e = 0
                 THEN [err |-> "BadEOFParseError", byte |-> EOF,
                       pos |-> Len(text) + 1]
                 ELSE jsrl_get_nonspace_byte(text, e)
     ELSE IF byte2 = 42
       THEN LET e == BlockComment(text, pos + 2, 0)
            IN IF e = 0
                 THEN [err |-> "BadEOFParseError", byte |-> EOF,
                       pos |-> Len(text) + 1]
                 ELSE jsrl_get_nonspace_byte(text, e)
     ELSE [err |-> "UnexpectedByteParseError", byte |-> byte2, pos |-> pos + 1]

get_separator_byte(text, pos, eof_okay) ==
  Let(jsrl_get_nonspace_byte(text, pos), LAMBDA r :
    IF r.err # "" THEN r
    ELSE IF r.byte = EOF
      THEN [r EXCEPT !.err = IF eof_okay THEN "StartEOFParseError"
                              ELSE "BadEOFParseError"]
    ELSE r)

\* a peek at the very next byte, blanks and comments not skipped
peek_next_byte(text, pos) ==
  IF sbumpc(text, pos) = EOF
    THEN [err |-> "BadEOFParseError", byte |-> EOF, pos |-> pos]
    ELSE [err |-> "", byte |-> sbumpc(text, pos), pos |-> pos]

peek_separator_byte(text, pos) ==
  Let(get_separator_byte(text, pos, FALSE), LAMBDA r :
    IF r.err # "" THEN r ELSE [r EXCEPT !.pos = @ - 1])

RECURSIVE eat_word_rmdr(_, _, _, _)
\* word is the keyword's bytes, i the index of the next byte expected;
\* yields [err, pos]
eat_word_rmdr(text, pos, word, i) ==
  Let(sbumpc(text, pos), LAMBDA byte :
     IF i > Len(word)
       THEN IF isalnum(byte)
              THEN [err |-> "UnexpectedByteParseError", pos |-> pos - 1]
              ELSE [err |-> "", pos |-> pos]
     ELSE IF byte = EOF THEN [err |-> "BadEOFParseError", pos |-> pos]
     ELSE IF byte # word[i]
       THEN [err |-> "UnexpectedByteParseError", pos |-> pos]
     ELSE eat_word_rmdr(text, pos + 1, word, i + 1))

\* yields [err, digit, pos]
read_hex_digit(text, pos) ==
  Let(sbumpc(text, pos), LAMBDA byte :
     IF byte = EOF
       THEN [err |-> "BadEOFParseError", digit |-> 0, pos |-> pos]
     ELSE IF byte >= 48 /\ byte <= 57
       THEN [err |-> "", digit |-> byte - 48, pos |-> pos + 1]
     ELSE IF byte >= 97 /\ byte <= 102
       THEN [err |-> "", digit |-> byte - 97 + 10, pos |-> pos + 1]
     ELSE IF byte >= 65 /\ byte <= 70
       THEN [err |-> "", digit |-> byte - 65 + 10, pos |-> pos + 1]
     ELSE [err |-> "UnexpectedByteParseError", digit |-> 0, pos |-> pos])

RECURSIVE read_escaped_codepoint(_, _, _, _)
\* n hex digits still to read onto codepoint; yields [err, codepoint, pos]
read_escaped_codepoint(text, pos, n, codepoint) ==
  IF n = 0 THEN [err |-> "", codepoint |-> codepoint, pos |-> pos]
  ELSE Let(read_hex_digit(text, pos), LAMBDA d :
         IF d.err # ""
           THEN [err |-> d.err, codepoint |-> 0, pos |-> d.pos]
           ELSE read_escaped_codepoint(text, d.pos, n - 1,
                                       ((codepoint * 16) % 65536) + d.digit))

\* the bytes add_utf8_seq appends (the leading bits never overlap the mask)
add_utf8_seq(codepoint, mask, cont_bytes) ==
  <<mask + ((codepoint \div (64 ^ cont_bytes)) % 256)>> \o
  [i \in 1..cont_bytes |->
     128 + ((codepoint \div (64 ^ (cont_bytes - i))) % 64)]

\* yields [err, bytes, pos]: the bytes one \u escape adds to the string
add_unicode_codepoint(text, pos) ==
  LET fail(e, at) == [err |-> e, bytes |-> <<>>, pos |-> at]
      put(codepoint, at) ==
        [err |-> "", pos |-> at,
         bytes |-> IF codepoint < 128 THEN <<codepoint>>
                   ELSE IF codepoint < 2048 THEN add_utf8_seq(codepoint, 192, 1)
                   ELSE IF codepoint < 65536 THEN add_utf8_seq(codepoint, 224, 2)
                   ELSE add_utf8_seq(codepoint, 240, 3)]
      low(first) ==
        Let(read_escaped_codepoint(text, first.pos + 2, 4, 0), LAMBDA second :
          IF second.err # "" THEN fail(second.err, second.pos)
          ELSE IF second.codepoint \div 1024 # 55
            THEN fail("UTFParseError", second.pos)
          ELSE [err |-> "", pos |-> second.pos,
                codepoint |-> (first.codepoint % 1024) * 1024
                              + (second.codepoint % 1024) + 65536])
      codepoint(first) ==
        LET b1 == sbumpc(text, first.pos)
            b2 == sbumpc(text, first.pos + 1)
        IN IF first.err # "" THEN fail(first.err, first.pos)
           ELSE IF first.codepoint \div 1024 = 54
             THEN IF b1 # 92
                    THEN fail("UnexpectedByteParseError",
                              IF b1 = EOF THEN first.pos - 1 ELSE first.pos)
                  ELSE IF b2 # 117
                    THEN fail("UnexpectedByteParseError",
                              IF b2 = EOF THEN first.pos ELSE first.pos + 1)
                  ELSE low(first)
           ELSE IF first.codepoint \div 1024 = 55
             THEN fail("UTFParseError", first.pos)
           ELSE [err |-> "", pos |-> first.pos, codepoint |-> first.codepoint]
  IN Let(Let(read_escaped_codepoint(text, pos, 4, 0), codepoint), LAMBDA c :
       IF c.err # "" THEN c ELSE put(c.codepoint, c.pos))

RECURSIVE read_json_string_value(_, _, _)
\* the loop of read_json_string_value with the bytes packaged so far;
\* yields [err, s, pos]
read_json_string_value(text, pos, value) ==
  LET byte == sbumpc(text, pos)
      esc == sbumpc(text, pos + 1)
      fail(e, at) == [err |-> e, s |-> <<>>, pos |-> at]
      \* the bytes a two-byte escape stands for, <<>> when it is none
      simple == CASE esc \in {92, 47, 34} -> <<esc>>
                  [] esc = 98 -> <<8>>
                  [] esc = 102 -> <<12>>
                  [] esc = 110 -> <<10>>
                  [] esc = 114 -> <<13>>
                  [] esc = 116 -> <<9>>
                  [] OTHER -> <<>>
      \* [err, at, bytes]: what the bytes at pos add and where the next are
      unit ==
        IF byte = EOF THEN [err |-> "BadEOFParseError", at |-> pos, bytes |-> <<>>]
        ELSE IF byte = 34 THEN [err |-> "end", at |-> pos + 1, bytes |-> <<>>]
        ELSE IF byte = 92
          THEN IF simple # <<>>
                 THEN [err |-> "", at |-> pos + 2, bytes |-> simple]
               ELSE IF esc = 117
                 THEN Let(add_unicode_codepoint(text, pos + 2), LAMBDA u :
                        [err |-> u.err, at |-> u.pos, bytes |-> u.bytes])
               ELSE [err |-> "UnexpectedByteParseError", bytes |-> <<>>,
                     at |-> IF esc = EOF THEN pos + 1 ELSE pos + 2]
        ELSE IF byte < 32
          THEN [err |-> "UnexpectedByteParseError", at |-> pos, bytes |-> <<>>]
        ELSE [err |-> "", at |-> pos + 1, bytes |-> <<byte>>]
  IN Let(unit, LAMBDA r :
       IF r.err = "end" THEN [err |-> "", s |-> value, pos |-> r.at]
       ELSE IF r.err # "" THEN fail(r.err, r.at)
       ELSE read_json_string_value(text, r.at, value \o r.bytes))

(***************************************************************************)
(* GeneralNumber to native integers.                                       *)
(***************************************************************************)
MAXLL ==
  <<9, 2, 2, 3, 3, 7, 2, 0, 3, 6, 8, 5, 4, 7, 7, 5, 8, 0, 8>>

MAXLLU ==
  <<1, 8, 4, 4, 6, 7, 4, 4, 0, 7, 3, 7, 0, 9, 5, 5, 1, 6, 1, 5>>

RECURSIVE RangeScan(_, _, _, _)
\* the digit loop of the range checks; past the limit's digits the limit
\* array holds its terminating NUL, below every digit character
RangeScan(digits, limit, i, at_end) ==
  IF i > Len(digits) THEN at_end
  ELSE IF i > Len(limit) THEN FALSE
  ELSE IF digits[i] = limit[i] THEN RangeScan(digits, limit, i + 1, at_end)
  ELSE digits[i] < limit[i]

is_in_long_long_range(negative, exponent, digits) ==
  IF exponent > Len(MAXLL) THEN FALSE
  ELSE IF exponent < Len(MAXLL) THEN TRUE
  ELSE RangeScan(digits, MAXLL, 1, Len(digits) < Len(MAXLL) \/ negative)

is_in_long_long_unsigned_range(exponent, digits) ==
  IF exponent > Len(MAXLLU) THEN FALSE
  ELSE IF exponent < Len(MAXLLU) THEN TRUE
  ELSE RangeScan(digits, MAXLLU, 1, TRUE)

is_long_long_unsigned(g) ==
  IF g.is_decimal THEN FALSE
  ELSE IF g.negative THEN FALSE
  ELSE IF g.digits = <<>> THEN TRUE
  ELSE IF g.exponent < Len(g.digits) THEN FALSE
  ELSE is_in_long_long_unsigned_range(g.exponent, g.digits)

is_long_long(g) ==
  IF g.is_decimal THEN FALSE
  ELSE IF g.digits = <<>> THEN TRUE
  ELSE IF g.exponent < Len(g.digits) THEN FALSE
  ELSE is_in_long_long_range(g.negative, g.exponent, g.digits)

\* the accumulation loop shared by as_long_long and as_long_long_unsigned
DigitsValue(g) ==
  DigitsNat([i \in 1..g.exponent |->
               IF i <= Len(g.digits) THEN g.digits[i] ELSE 0])

\* as_long_long_unsigned on a number inside the range (where the parser
\* calls it)
as_long_long_unsigned(g) ==
  IF g.exponent < 0 THEN 0
  ELSE IF g.negative THEN 0
  ELSE DigitsValue(g)

\* as_long_long on a number inside the range (where the parser calls it)
as_long_long(g) ==
  IF g.exponent < 0 THEN 0
  ELSE IF g.negative THEN -DigitsValue(g)
  ELSE DigitsValue(g)

\* A value of long long or long long unsigned beyond 32 bits is held as its
\* sign and the decimal digits of its magnitude (<<>> for 0); wrapped tells
\* that an addition or negation in long long overflowed on the way, trap
\* that the call did not return.
Wide(neg, digits) ==
  [trap |-> FALSE, wrapped |-> FALSE, neg |-> neg, digits |-> digits]

\* numeric_limits<long long>::max()
LLONG_MAX ==
  Wide(FALSE, <<9, 2, 2, 3, 3, 7, 2, 0, 3, 6, 8, 5, 4, 7, 7, 5, 8, 0, 7>>)

\* numeric_limits<long long>::min()
LLONG_MIN ==
  Wide(TRUE, MAXLL)

\* numeric_limits<long long unsigned>::max()
ULLONG_MAX ==
  Wide(FALSE, MAXLLU)

\* a > b for magnitudes written without leading zeros
RECURSIVE DigitsGreater(_, _)
DigitsGreater(x, y) ==
  IF Len(x) # Len(y) THEN Len(x) > Len(y)
  ELSE IF x = <<>> THEN FALSE
  ELSE IF x[1] # y[1] THEN x[1] > y[1]
  ELSE DigitsGreater(Tail(x), Tail(y))

\* the loop  result *= 10; if (i < size) result += digit  run m_exponent
\* times: the magnitude accumulated
Accumulated(g) ==
  [i \in 1..g.exponent |-> IF i <= Len(g.digits) THEN g.digits[i] ELSE 0]

\* GeneralNumber::as_long_long: the set of outcomes.  The loop accumulates
\* the magnitude in a long long; when the magnitude exceeds LLONG_MAX the
\* addition overflows a signed integer, which is undefined: the build either
\* wraps (the sum becomes LLONG_MIN, and so does its negation) or traps.
GeneralNumber_as_long_long(g) ==
  IF g.exponent < 0 THEN {Wide(FALSE, <<>>)}
  ELSE IF ~is_in_long_long_range(g.negative, g.exponent, g.digits)
    THEN {IF g.negative THEN LLONG_MIN ELSE LLONG_MAX}
  ELSE IF DigitsGreater(Accumulated(g), LLONG_MAX.digits)
    THEN {[LLONG_MIN EXCEPT !.wrapped = TRUE],
          [Wide(FALSE, <<>>) EXCEPT !.trap = TRUE]}
  ELSE {Wide(g.negative /\ g.exponent > 0, Accumulated(g))}

\* GeneralNumber::as_long_long_unsigned; inside the range the accumulated
\* magnitude is at most ULLONG_MAX and the unsigned arithmetic is exact
GeneralNumber_as_long_long_unsigned(g) ==
  IF g.exponent < 0 THEN Wide(FALSE, <<>>)
  ELSE IF g.negative THEN Wide(FALSE, <<>>)
  ELSE IF ~is_in_long_long_unsigned_range(g.exponent, g.digits)
    THEN ULLONG_MAX
  ELSE Wide(FALSE, Accumulated(g))

(***************************************************************************)
(* The element readers.  An element parsed at byte position p of an input  *)
(* is the allocation base + p; yields [err, val, pos].                     *)
(***************************************************************************)
ParseFail(err, pos) ==
  [err |-> err, val |-> JSONElementNull, pos |-> pos]

\* read_number_element; pos is the position of firstchar
read_number_element(text, pos, use_GN_for_floats, id) ==
  LET element(n) ==
        LET sigdigs == Len(n.digits)
        IN IF is_long_long_unsigned(n)
             THEN JSONElementNumberIntegerUint(id, as_long_long_unsigned(n))
           ELSE IF is_long_long(n)
             THEN make_signed_integer_element(id, as_long_long(n))
           ELSE IF use_GN_for_floats THEN JSONElementNumberGeneral(id, n)
           ELSE JSONElementNumberDouble(id, as_long_double(n),
                                        IF sigdigs # 0 THEN sigdigs ELSE 1)
  IN Let(GNParseAt(text, pos), LAMBDA r :
       IF ~r.ok THEN ParseFail(r.err, r.pos)
       ELSE [err |-> "", pos |-> r.pos, val |-> Let(r.gn, element)])

read_string_element(text, pos, id) ==
  Let(read_json_string_value(text, pos, <<>>), LAMBDA r :
    IF r.err # "" THEN ParseFail(r.err, r.pos)
    ELSE [err |-> "", val |-> JSONElementString(id, r.s), pos |-> r.pos])

\* yields [err, s, pos]
read_object_key(text, pos) ==
  Let(get_separator_byte(text, pos, FALSE), LAMBDA r :
    IF r.err # "" THEN [err |-> r.err, s |-> <<>>, pos |-> r.pos]
    ELSE IF r.byte = 34 THEN read_json_string_value(text, r.pos, <<>>)
    ELSE IF r.byte = 125
      THEN [err |-> "TrailingCommaParseError", s |-> <<>>, pos |-> r.pos - 1]
    ELSE [err |-> "UnexpectedByteParseError", s |-> <<>>, pos |-> r.pos - 1])

RECURSIVE read_json(_, _, _, _)
RECURSIVE ReadArrayItems(_, _, _, _, _)
RECURSIVE ReadObjectItems(_, _, _, _, _)

read_internal_json(text, pos, use_GN_for_floats, base) ==
  Let(read_json(text, pos, use_GN_for_floats, base), LAMBDA r :
    IF r.err = "StartEOFParseError" THEN [r EXCEPT !.err = "BadEOFParseError"]
    ELSE r)

\* the for(;;) of read_array; yields [err, items, pos]
ReadArrayItems(text, pos, use_GN_for_floats, base, items) ==
  LET fail(e, at) == [err |-> e, items |-> <<>>, pos |-> at]
      \* after the comma c: [err, more, pos]
      next(c) ==
        IF c.err # "" THEN [err |-> c.err, more |-> FALSE, pos |-> c.pos]
        ELSE IF c.byte = 44
          THEN Let(peek_separator_byte(text, c.pos), LAMBDA pk :
                 IF pk.err # ""
                   THEN [err |-> pk.err, more |-> FALSE, pos |-> pk.pos]
                 ELSE IF pk.byte = 93
                   THEN [err |-> "TrailingCommaParseError", more |-> FALSE,
                         pos |-> pk.pos]
                 ELSE [err |-> "", more |-> TRUE, pos |-> pk.pos])
        ELSE IF c.byte = 93 THEN [err |-> "", more |-> FALSE, pos |-> c.pos]
        ELSE [err |-> "UnexpectedByteParseError", more |-> FALSE,
              pos |-> c.pos - 1]
  IN Let(read_internal_json(text, pos, use_GN_for_floats, base),
         LAMBDA element :
       IF element.err # "" THEN fail(element.err, element.pos)
       ELSE Let(Let(get_separator_byte(text, element.pos, FALSE), next),
                LAMBDA n :
              IF n.err # "" THEN fail(n.err, n.pos)
              ELSE IF n.more
                THEN ReadArrayItems(text, n.pos, use_GN_for_floats, base,
                                    Append(items, element.val))
              ELSE [err |-> "", items |-> Append(items, element.val),
                    pos |-> n.pos]))

read_array(text, pos, use_GN_for_floats, base, id) ==
  Let(get_separator_byte(text, pos, FALSE), LAMBDA r :
    IF r.err # "" THEN ParseFail(r.err, r.pos)
    ELSE IF r.byte = 93
      THEN [err |-> "", val |-> JSONElementArray(id, <<>>), pos |-> r.pos]
    ELSE Let(ReadArrayItems(text, r.pos - 1, use_GN_for_floats, base, <<>>),
             LAMBDA l :
           IF l.err # "" THEN ParseFail(l.err, l.pos)
           ELSE [err |-> "", val |-> JSONElementArray(id, l.items),
                 pos |-> l.pos]))

\* the for(;;) of read_object; yields [err, items, pos]
ReadObjectItems(text, pos, use_GN_for_floats, base, object) ==
  LET fail(e, at) == [err |-> e, items |-> <<>>, pos |-> at]
      \* the colon after the key: [err, pos]
      colon(key) ==
        IF key.err # "" THEN [err |-> key.err, pos |-> key.pos]
        ELSE Let(get_separator_byte(text, key.pos, FALSE), LAMBDA c :
               IF c.err # "" THEN [err |-> c.err, pos |-> c.pos]
               ELSE IF c.byte # 58
                 THEN [err |-> "UnexpectedByteParseError", pos |-> c.pos - 1]
               ELSE [err |-> "", pos |-> c.pos])
      \* the separator after the element: [err, more, pos]
      next(element) ==
        IF element.err # ""
          THEN [err |-> element.err, more |-> FALSE, pos |-> element.pos]
        ELSE Let(get_separator_byte(text, element.pos, FALSE), LAMBDA c2 :
               IF c2.err # ""
                 THEN [err |-> c2.err, more |-> FALSE, pos |-> c2.pos]
               ELSE IF c2.byte = 44
                 THEN [err |-> "", more |-> TRUE, pos |-> c2.pos]
               ELSE IF c2.byte = 125
                 THEN [err |-> "", more |-> FALSE, pos |-> c2.pos]
               ELSE [err |-> "UnexpectedByteParseError", more |-> FALSE,
                     pos |-> c2.pos - 1])
      value(key, c) ==
        IF c.err # "" THEN fail(c.err, c.pos)
        ELSE Let(read_internal_json(text, c.pos, use_GN_for_floats, base),
                 LAMBDA element :
               Let(next(element), LAMBDA n :
                 IF n.err # "" THEN fail(n.err, n.pos)
                 ELSE IF n.more
                   THEN ReadObjectItems(text, n.pos, use_GN_for_floats, base,
                          Append(object, [key |-> key.s, val |-> element.val]))
                 ELSE [err |-> "", pos |-> n.pos,
                       items |-> Append(object, [key |-> key.s,
                                                 val |-> element.val])]))
  IN Let(read_object_key(text, pos), LAMBDA key :
       Let(colon(key), LAMBDA c : value(key, c)))

read_object(text, pos, use_GN_for_floats, base, id) ==
  Let(get_separator_byte(text, pos, FALSE), LAMBDA r :
    IF r.err # "" THEN ParseFail(r.err, r.pos)
    ELSE IF r.byte = 125
      THEN [err |-> "", val |-> JSONElementObject(id, <<>>), pos |-> r.pos]
    ELSE Let(ReadObjectItems(text, r.pos - 1, use_GN_for_floats, base, <<>>),
             LAMBDA l :
           IF l.err # "" THEN ParseFail(l.err, l.pos)
           ELSE [err |-> "", val |-> JSONElementObject(id, l.items),
                 pos |-> l.pos]))

read_json(text, pos, use_GN_for_floats, base) ==
  LET word(w, val, at) ==
        Let(eat_word_rmdr(text, at, w, 2), LAMBDA e :
          IF e.err # "" THEN ParseFail(e.err, e.pos)
          ELSE [err |-> "", val |-> val, pos |-> e.pos])
      \* the literal a first byte announces: [w, b], w empty for none
      literal(byte) ==
        CASE byte = 110 -> [w |-> Txt(<<"n", "u", "l", "l">>), b |-> FALSE]
          [] byte = 102 -> [w |-> Txt(<<"f", "a", "l", "s", "e">>), b |-> FALSE]
          [] byte = 116 -> [w |-> Txt(<<"t", "r", "u", "e">>), b |-> TRUE]
          [] OTHER -> [w |-> <<>>, b |-> FALSE]
      element(r, id, lit) ==
        IF r.err # "" THEN ParseFail(r.err, r.pos)
        ELSE IF r.byte = 34 THEN read_string_element(text, r.pos, id)
        ELSE IF r.byte = 91
          THEN read_array(text, r.pos, use_GN_for_floats, base, id)
        ELSE IF r.byte = 123
          THEN read_object(text, r.pos, use_GN_for_floats, base, id)
        ELSE IF lit.w # <<>>
          THEN word(lit.w,
                    IF r.byte = 110 THEN JSONElementNull
                    ELSE JSONElementBool(id, lit.b),
                    r.pos)
        ELSE IF r.byte = 45 \/ isdigit(r.byte)
          THEN read_number_element(text, r.pos - 1, use_GN_for_floats, id)
        ELSE ParseFail("UnexpectedByteParseError", r.pos - 1)
  IN Let(get_separator_byte(text, pos, TRUE), LAMBDA r :
       element(r, base + r.pos - 1, literal(r.byte)))

\* Json::parse(streambuf &, bool)
parse_streambuf(text, use_GN_for_floats, base) ==
  read_json(text, 1, use_GN_for_floats, base)

\* context_parse behind Json::parse(string): floating mode, whole input
\* a parse satisfied with the first value, whatever follows it
parse_first_value(text, base) ==
  parse_streambuf(text, FALSE, base)

context_parse(text, base) ==
  Let(parse_streambuf(text, FALSE, base), LAMBDA result :
    IF result.err # "" THEN result
    ELSE Let(jsrl_get_nonspace_byte(text, result.pos), LAMBDA t :
           IF t.err # "" THEN ParseFail(t.err, t.pos)
           ELSE IF t.byte # EOF
             THEN ParseFail("TrailingBytesParseError", t.pos - 1)
           ELSE result))

(***************************************************************************)
(* The store of element allocations.  heap maps an allocation to its       *)
(* element, whose elems are the allocations its child handles point at     *)
(* (0 for the null singleton).  A handle is an allocation.                 *)
(***************************************************************************)
Cell(h, id) ==
  IF id = 0 THEN JSONElementNull ELSE h[id]

RECURSIVE View(_, _)
\* the Value a handle denotes: the element with its children expanded
View(h, id) ==
  Let(Cell(h, id), LAMBDA c :
     [c EXCEPT !.elems = [i \in 1..Len(c.elems) |-> View(h, c.elems[i])]])

RECURSIVE Store(_, _)
\* the store after the allocations of the Value v were made
Store(h, v) ==
  IF v.id = 0 THEN h
  ELSE LET RECURSIVE StoreAll(_, _)
           StoreAll(hh, i) ==
             IF i > Len(v.elems) THEN hh
             ELSE StoreAll(Store(hh, v.elems[i]), i + 1)
       IN (v.id :> [v EXCEPT !.elems = [i \in 1..Len(v.elems) |-> v.elems[i].id]])
          @@ StoreAll(h, 1)

RECURSIVE Relabel(_, _)
\* the same Value made of other allocations (the null singleton stays)
Relabel(v, delta) ==
  IF v.id = 0 THEN v
  ELSE [v EXCEPT !.id = @ + delta,
                 !.elems = [i \in 1..Len(v.elems) |-> Relabel(v.elems[i], delta)]]

RECURSIVE Reach(_, _)
\* the allocations kept alive by the handles in ids
Reach(h, ids) ==
  LET live == ids \ {0}
      next == live \cup UNION {{h[i].elems[j] : j \in 1..Len(h[i].elems)} : i \in live}
  IN IF next \ {0} = live THEN live ELSE Reach(h, next)

\* shared_ptr ownership: an allocation no handle reaches is released
Release(h, handles) ==
  LET live == Reach(h, handles)
  IN [i \in live |-> h[i]]

SetMax(S) ==
  CHOOSE m \in S : \A x \in S : x <= m

\* make_shared: an allocation distinct from every live one
NewId(h) ==
  SetMax(DOMAIN h \cup {0}) + 1

(***************************************************************************)
(* Accessors.  They yield [err, id]; err is "" unless the accessor threw.  *)
(***************************************************************************)
RECURSIVE lower_bound(_, _, _, _)
\* std::lower_bound with CmpLt over keys[first+1 .. first+len]
lower_bound(keys, key, first, len) ==
  IF len = 0 THEN first + 1
  ELSE LET half == len \div 2
           mid == first + half
       IN IF StringLess(keys[mid + 1], key)
            THEN lower_bound(keys, key, mid + 1, len - half - 1)
            ELSE lower_bound(keys, key, first, half)

\* find(ObjectBody, key): the position of the key, 0 for end()
find(keys, key) ==
  Let(lower_bound(keys, key, 0, Len(keys)), LAMBDA found :
     IF found > Len(keys) THEN 0
     ELSE IF keys[found] # key THEN 0
     ELSE found)

IndexStep(index) ==
  [kind |-> "index", index |-> index, key |-> <<>>]

KeyStep(key) ==
  [kind |-> "key", index |-> 0, key |-> key]

\* a find_key that takes any receiver for an empty container
find_key_unchecked(h, id, step) ==
  LET c == Cell(h, id)
      at == find(c.keys, step.key)
  IN IF step.kind = "index"
       THEN IF step.index >= Len(c.elems)
              THEN [err |-> "", found |-> FALSE, id |-> 0]
            ELSE [err |-> "", found |-> TRUE, id |-> c.elems[step.index + 1]]
     ELSE IF at = 0 THEN [err |-> "", found |-> FALSE, id |-> 0]
     ELSE [err |-> "", found |-> TRUE, id |-> c.elems[at]]

\* Json::find_key(size_t) and Json::find_key(string_view); found is FALSE
\* for the null pointer, err is the TypeError thrown
find_key(h, id, step) ==
  LET c == Cell(h, id)
      at == find(c.keys, step.key)
  IN IF step.kind = "index"
       THEN IF c.tt # TT_ARRAY
              THEN [err |-> "CastTypeError", found |-> FALSE, id |-> 0]
            ELSE IF step.index >= Len(c.elems)
              THEN [err |-> "", found |-> FALSE, id |-> 0]
            ELSE [err |-> "", found |-> TRUE, id |-> c.elems[step.index + 1]]
     ELSE IF c.tt # TT_OBJECT
       THEN [err |-> "CompoundTypeError", found |-> FALSE, id |-> 0]
     ELSE IF at = 0 THEN [err |-> "", found |-> FALSE, id |-> 0]
     ELSE [err |-> "", found |-> TRUE, id |-> c.elems[at]]

\* Json::operator[](size_t) and Json::operator[](string_view)
Json_subscript(h, id, step) ==
  Let(find_key(h, id, step), LAMBDA element :
     IF element.err # "" THEN [err |-> "CompoundTypeError", id |-> 0]
     ELSE IF ~element.found
       THEN [err |-> IF step.kind = "index" THEN "ArrayKeyError"
                     ELSE "ObjectKeyError", id |-> 0]
     ELSE [err |-> "", id |-> element.id])

\* a get that hands out the null Json whatever default was supplied
Json_get_ignoring_default(h, id, step, default_val) ==
  Let(find_key(h, id, step), LAMBDA element :
     IF element.err # "" THEN [err |-> element.err, id |-> 0]
     ELSE IF ~element.found THEN [err |-> "", id |-> 0]
     ELSE [err |-> "", id |-> element.id])

\* Json::get(key, default_val): the handle of the element, or of the default
Json_get_or(h, id, step, default_val) ==
  Let(find_key(h, id, step), LAMBDA element :
     IF element.err # "" THEN [err |-> element.err, id |-> 0]
     ELSE IF ~element.found THEN [err |-> "", id |-> default_val]
     ELSE [err |-> "", id |-> element.id])

\* Json::get(key): a missing element reads as null
Json_get(h, id, step) ==
  Json_get_or(h, id, step, 0)

\* the types of the typed accessors as_TYPE and get_TYPE
GetAsTypes ==
  {"bool", "number_float", "number_sint", "number_uint", "string", "array",
   "object"}

\* ElementBase::as_TYPE of the element c: the error it throws, "" if none.
\* The base class throws; an element class overrides the accessors of its
\* own type, the number classes those of the number types they convert to.
as_TYPE(TYPE, c) ==
  CASE TYPE = "bool" ->
         IF c.tt = TT_BOOL THEN "" ELSE "CastTypeError"
    [] TYPE = "string" ->
         IF c.tt = TT_STRING THEN "" ELSE "CastTypeError"
    [] TYPE = "array" ->
         IF c.tt = TT_ARRAY THEN "" ELSE "CastTypeError"
    [] TYPE = "object" ->
         IF c.tt = TT_OBJECT THEN "" ELSE "CastTypeError"
    [] TYPE = "number_float" ->
         IF c.tt \in {TT_NUMBER, TT_NUMBER_GENERAL, TT_NUMBER_INTEGER,
                      TT_NUMBER_INTEGER_UNSIGNED}
           THEN "" ELSE "CastTypeError"
    [] TYPE = "number_sint" ->
         IF c.tt \in {TT_NUMBER_INTEGER, TT_NUMBER_INTEGER_UNSIGNED} THEN ""
         ELSE IF c.tt = TT_NUMBER_GENERAL /\ ~c.g.is_decimal THEN ""
         ELSE "CastTypeError"
    [] TYPE = "number_uint" ->
         IF c.tt = TT_NUMBER_INTEGER_UNSIGNED THEN ""
         ELSE IF c.tt = TT_NUMBER_GENERAL /\ ~c.g.is_decimal THEN ""
         ELSE "CastTypeError"

\* Json::get_TYPE(key, default_value): dflt tells that the default was
\* returned, id is the element whose value was returned otherwise
Json_get_as(TYPE, h, id, step) ==
  Let(find_key(h, id, step), LAMBDA element :
     IF element.err # ""
       THEN [err |-> element.err, dflt |-> FALSE, id |-> 0]
     ELSE IF ~element.found THEN [err |-> "", dflt |-> TRUE, id |-> 0]
     ELSE [err |-> as_TYPE(TYPE, Cell(h, element.id)), dflt |-> FALSE,
           id |-> element.id])

RECURSIVE currentValue(_, _, _)
\* currentValue() of the proxy reached from the variable by path
currentValue(h, m_v, path) ==
  IF path = <<>> THEN [err |-> "", id |-> m_v]
  ELSE LET parent == currentValue(h, m_v, SubSeq(path, 1, Len(path) - 1))
       IN IF parent.err # "" THEN parent
          ELSE Json_subscript(h, parent.id, path[Len(path)])

(***************************************************************************)
(* The modification proxies.  A proxy is the variable m_v it was made from *)
(* and the path of subscripts applied; an operation yields [err, heap,     *)
(* m_v], the store and the variable after it (unchanged when it threw).    *)
(***************************************************************************)
Thrown(err, h, m_v) ==
  [err |-> err, heap |-> h, m_v |-> m_v]

\* Json(ArrayBody): a new array element
NewArray(h, body) ==
  (NewId(h) :> JSONElementArray(NewId(h), body)) @@ h

\* Json(ObjectBody): a new object element, canonicalised by its constructor
NewObject(h, body) ==
  (NewId(h) :> JSONElementObject(NewId(h), body)) @@ h

\* the ObjectBody of an object element, child handles as allocations
ObjectBody(h, id) ==
  as_object(Cell(h, id))

\* JModVariable::assign
JModVariable_assign(h, m_v, newValue) ==
  [err |-> "", heap |-> h, m_v |-> newValue]

RECURSIVE assign(_, _, _, _)

\* an assignment that writes the element into the array allocation itself
assign_in_place(h, m_v, parent, m_index, newValue) ==
  Let(currentValue(h, m_v, parent), LAMBDA cur :
    IF cur.err # "" THEN Thrown(cur.err, h, m_v)
    ELSE IF Cell(h, cur.id).tt # TT_ARRAY \/ cur.id = 0
      THEN Thrown("CastTypeError", h, m_v)
    ELSE Let(Cell(h, cur.id).elems, LAMBDA old :
           [err |-> "", m_v |-> m_v,
            heap |-> [h EXCEPT ![cur.id].elems =
                        IF m_index < Len(old)
                          THEN [old EXCEPT ![m_index + 1] = newValue]
                          ELSE old \o Zeros(m_index - Len(old))
                                   \o <<newValue>>]]))

\* an assignment that inserts the key into the object allocation itself
insert_key_in_place(h, m_v, parent, m_key, newValue) ==
  Let(currentValue(h, m_v, parent), LAMBDA cur :
    IF cur.err # "" THEN Thrown(cur.err, h, m_v)
    ELSE IF Cell(h, cur.id).tt # TT_OBJECT \/ cur.id = 0
      THEN Thrown("CastTypeError", h, m_v)
    ELSE Let(JSONElementObject(cur.id, Append(ObjectBody(h, cur.id),
                                              [key |-> m_key, val |-> newValue])),
             LAMBDA object :
               [err |-> "", m_v |-> m_v,
                heap |-> [h EXCEPT ![cur.id] = object]]))

\* an assignment that appends past the end without padding
assign_without_padding(h, m_v, parent, m_index, newValue) ==
  Let(currentValue(h, m_v, parent), LAMBDA cur :
    IF cur.err # "" THEN Thrown(cur.err, h, m_v)
    ELSE IF Cell(h, cur.id).tt # TT_ARRAY THEN Thrown("CastTypeError", h, m_v)
    ELSE Let(Cell(h, cur.id).elems, LAMBDA old :
           assign(NewArray(h, IF m_index < Len(old)
                                THEN [old EXCEPT ![m_index + 1] = newValue]
                                ELSE Append(old, newValue)),
                  m_v, parent, NewId(h))))

\* an assignment that makes the new object the root
assign_at_root(h, m_v, parent, m_key, newValue) ==
  Let(currentValue(h, m_v, parent), LAMBDA cur :
    IF cur.err # "" THEN Thrown(cur.err, h, m_v)
    ELSE IF Cell(h, cur.id).tt # TT_OBJECT THEN Thrown("CastTypeError", h, m_v)
    ELSE JModVariable_assign(
           NewObject(h, Append(ObjectBody(h, cur.id),
                               [key |-> m_key, val |-> newValue])),
           m_v, NewId(h)))

\* JModArrayPoint::assign, for the point parent[m_index]
JModArrayPoint_assign(h, m_v, parent, m_index, newValue) ==
  Let(currentValue(h, m_v, parent), LAMBDA cur :
    IF cur.err # "" THEN Thrown(cur.err, h, m_v)
    ELSE IF Cell(h, cur.id).tt # TT_ARRAY THEN Thrown("CastTypeError", h, m_v)
    ELSE Let(Cell(h, cur.id).elems, LAMBDA old :
           assign(NewArray(h, IF m_index < Len(old)
                                THEN [old EXCEPT ![m_index + 1] = newValue]
                                ELSE old \o Zeros(m_index - Len(old))
                                         \o <<newValue>>),
                  m_v, parent, NewId(h))))

\* an assignment that takes the variable's Value out before it looks at the
\* kind of the parent
assign_after_move(h, m_v, parent, m_key, newValue) ==
  Let(currentValue(h, m_v, parent), LAMBDA cur :
    IF cur.err # "" THEN Thrown(cur.err, h, 0)
    ELSE IF Cell(h, cur.id).tt # TT_OBJECT THEN Thrown("CastTypeError", h, 0)
    ELSE assign(NewObject(h, Append(ObjectBody(h, cur.id),
                                    [key |-> m_key, val |-> newValue])),
                m_v, parent, NewId(h)))

\* JModObjectPoint::assign, for the point parent[m_key]
JModObjectPoint_assign(h, m_v, parent, m_key, newValue) ==
  Let(currentValue(h, m_v, parent), LAMBDA cur :
    IF cur.err # "" THEN Thrown(cur.err, h, m_v)
    ELSE IF Cell(h, cur.id).tt # TT_OBJECT THEN Thrown("CastTypeError", h, m_v)
    ELSE assign(NewObject(h, Append(ObjectBody(h, cur.id),
                                    [key |-> m_key, val |-> newValue])),
                m_v, parent, NewId(h)))

\* p_derived().assign( newValue ) of the proxy at path
assign(h, m_v, path, newValue) ==
  LET parent == SubSeq(path, 1, Len(path) - 1)
      step == path[Len(path)]
  IN IF path = <<>> THEN JModVariable_assign(h, m_v, newValue)
     ELSE IF step.kind = "index"
       THEN JModArrayPoint_assign(h, m_v, parent, step.index, newValue)
     ELSE JModObjectPoint_assign(h, m_v, parent, step.key, newValue)

\* currentValue().as_array(): [err, id] of the array element
CurrentArray(h, m_v, path) ==
  Let(currentValue(h, m_v, path), LAMBDA cur :
     IF cur.err # "" THEN cur
     ELSE IF Cell(h, cur.id).tt # TT_ARRAY
       THEN [err |-> "CastTypeError", id |-> 0]
     ELSE cur)

\* currentValue().as_object(): [err, id] of the object element
CurrentObject(h, m_v, path) ==
  Let(currentValue(h, m_v, path), LAMBDA cur :
     IF cur.err # "" THEN cur
     ELSE IF Cell(h, cur.id).tt # TT_OBJECT
       THEN [err |-> "CastTypeError", id |-> 0]
     ELSE cur)

\* JMod::push_back
push_back(h, m_v, path, value) ==
  Let(CurrentArray(h, m_v, path), LAMBDA cur :
     IF cur.err # "" THEN Thrown(cur.err, h, m_v)
     ELSE assign(h, m_v, Append(path, IndexStep(Len(Cell(h, cur.id).elems))),
                 value))

RECURSIVE SelectSeqNot(_, _, _)
\* the elements of body from position i on whose index is not in f
SelectSeqNot(body, f, i) ==
  IF i > Len(body) THEN <<>>
  ELSE (IF (i - 1) \in f THEN <<>> ELSE <<body[i]>>) \o
       SelectSeqNot(body, f, i + 1)

\* JMod::erase_indexes_if; f is the set of indexes the predicate holds for
erase_indexes_if(h, m_v, path, f) ==
  LET cur == CurrentArray(h, m_v, path)
      oldValue == Cell(h, cur.id).elems
      newBody == SelectSeqNot(oldValue, f, 1)
  IN IF cur.err # "" THEN Thrown(cur.err, h, m_v)
     ELSE assign(NewArray(h, newBody), m_v, path, NewId(h))

\* JMod::erase_keys_if; f is the set of keys the predicate holds for
erase_keys_if(h, m_v, path, f) ==
  LET cur == CurrentObject(h, m_v, path)
      old == ObjectBody(h, cur.id)
      newBody == SelectSeq(old, LAMBDA pr : pr.key \notin f)
  IN IF cur.err # "" THEN Thrown(cur.err, h, m_v)
     ELSE assign(NewObject(h, newBody), m_v, path, NewId(h))

\* JMod::erase_indexes: the cursor over the ordered set meets every index
\* of the set that the array has, in ascending order
erase_indexes(h, m_v, path, indexes) ==
  erase_indexes_if(h, m_v, path, indexes)

\* JMod::erase_keys
erase_keys(h, m_v, path, keys) ==
  erase_keys_if(h, m_v, path, keys)

\* JModArrayPoint::erase, for the point parent[m_index]
JModArrayPoint_erase(h, m_v, parent, m_index) ==
  erase_indexes_if(h, m_v, parent, {m_index})

\* JModArrayPoint::erase_count
erase_count(h, m_v, parent, m_index, count) ==
  erase_indexes_if(h, m_v, parent,
                   {index \in Nat : index >= m_index /\ index - m_index < count})

\* JModObjectPoint::erase, for the point parent[m_key]
JModObjectPoint_erase(h, m_v, parent, m_key) ==
  erase_keys_if(h, m_v, parent, {m_key})

\* JModArrayPoint::insert_all_at
insert_all_at(h, m_v, parent, m_index, elements) ==
  LET cur == CurrentArray(h, m_v, parent)
      oldBody == Cell(h, cur.id).elems
      newBody == IF m_index < Len(oldBody)
                   THEN SubSeq(oldBody, 1, m_index) \o elements \o
                        SubSeq(oldBody, m_index + 1, Len(oldBody))
                   ELSE oldBody \o Zeros(m_index - Len(oldBody)) \o elements
  IN IF cur.err # "" THEN Thrown(cur.err, h, m_v)
     ELSE assign(NewArray(h, newBody), m_v, parent, NewId(h))

\* JModArrayPoint::insert_at
insert_at(h, m_v, parent, m_index, value) ==
  insert_all_at(h, m_v, parent, m_index, <<value>>)

\* JMod::assign_keys
assign_keys(h, m_v, path, newKeys) ==
  LET cur == CurrentObject(h, m_v, path)
      newBody == ObjectBody(h, cur.id) \o newKeys
  IN IF cur.err # "" THEN Thrown(cur.err, h, m_v)
     ELSE assign(NewObject(h, newBody), m_v, path, NewId(h))

RECURSIVE p_set_elem_array(_, _)
\* p_set_elem on an ArrayBody for a list of [key, val] arguments
p_set_elem_array(as_arr, args) ==
  IF args = <<>> THEN as_arr
  ELSE LET key == args[1].key
           grown == IF Len(as_arr) <= key
                      THEN as_arr \o Zeros(key + 1 - Len(as_arr))
                      ELSE as_arr
       IN p_set_elem_array([grown EXCEPT ![key + 1] = args[1].val], Tail(args))

\* Json::set(size_t key, Json value, rest...) on the variable m_v
Json_set_array(h, m_v, args) ==
  IF Cell(h, m_v).tt # TT_ARRAY THEN Thrown("CastTypeError", h, m_v)
  ELSE [err |-> "", m_v |-> NewId(h),
        heap |-> NewArray(h, p_set_elem_array(Cell(h, m_v).elems, args))]

\* Json::set(string key, Json value, rest...) on the variable m_v; p_set_elem
\* appends each pair
Json_set_object(h, m_v, args) ==
  IF Cell(h, m_v).tt # TT_OBJECT THEN Thrown("CastTypeError", h, m_v)
  ELSE [err |-> "", m_v |-> NewId(h),
        heap |-> NewObject(h, ObjectBody(h, m_v) \o args)]

(***************************************************************************)
(* The program: a variable b edited through mod(b) and Json::set, and a    *)
(* second handle a that shares b's tree.                                   *)
(***************************************************************************)
VARIABLES
  heap,      \* the element allocations alive
  b,         \* the variable the proxies are bound to
  a,         \* another handle: a copy of b or of one of its sub-elements
  a_before,  \* the Value a denoted when it was taken, in allocations of its own
  a_text,    \* encode(a) when it was taken
  last,      \* the last operation: its name, arguments and outcome
  nops,      \* operations done
  v1,        \* the Values a library function is applied to, and its result:
  v2,        \*   the specifications of the pure functions use these four,
  v3,        \*   the others leave them alone
  result,
  threads    \* the threads of the concurrent program

vars ==
  <<heap, b, a, a_before, a_text, last, nops, v1, v2, v3, result, threads>>

\* the variables of the editing program
editing ==
  <<heap, b, a, a_before, a_text, last, nops>>

\* the variables of the function applications
applying ==
  <<v1, v2, v3, result>>

\* no function is being applied
NotApplying ==
  /\ v1 = JSONElementNull
  /\ v2 = JSONElementNull
  /\ v3 = JSONElementNull
  /\ result = [done |-> FALSE]

\* no program is being edited
NotEditing ==
  /\ heap = <<>>
  /\ b = 0
  /\ a = 0
  /\ a_before = JSONElementNull
  /\ a_text = <<>>
  /\ last = [op |-> ""]
  /\ nops = 0

MaxOps ==
  2

MaxIndex ==
  2

\* the keys "a" and "\u00e9" (two UTF-8 bytes above 0x7f)
Keys ==
  {<<97>>, <<195, 169>>}

Steps ==
  {IndexStep(i) : i \in 0..MaxIndex} \cup {KeyStep(k) : k \in Keys}

\* the proxies mod(b), mod(b)[s] and mod(b)[s][t]
Paths ==
  {<<>>} \cup {<<s>> : s \in Steps} \cup {<<s, t>> : s \in Steps, t \in Steps}

\* the proxies of the containers edited in place of an element
ShortPaths ==
  {p \in Paths : Len(p) <= 1}

IndexPaths ==
  {p \in Paths : p # <<>> /\ p[Len(p)].kind = "index"}

KeyPaths ==
  {p \in Paths : p # <<>> /\ p[Len(p)].kind = "key"}

Parent(path) ==
  SubSeq(path, 1, Len(path) - 1)

\* the documents b is parsed from
\* [[],{"b":3}]   {"b":1,"a":[1,2],"b":{"a":null}}   {"\u00e9":1,"a":[]}
InitTexts ==
  { Txt(<<"[", "[", "]", ",", "{", "\"", "b", "\"", ":", "3", "}", "]">>),
    Txt(<<"{", "\"", "b", "\"", ":", "1", ",", "\"", "a", "\"", ":", "[", "1",
          ",", "2", "]", ",", "\"", "b", "\"", ":", "{", "\"", "a", "\"", ":",
          "n", "u", "l", "l", "}", "}">>),
    <<123, 34, 195, 169, 34, 58, 49, 44, 34, 97, 34, 58, 91, 93, 125>> }

\* the Json arguments of an operation: a new number, the handle a
ArgKinds ==
  {"number", "shared"}

\* the store and the handle after the argument was constructed
Arg(h, kind) ==
  CASE kind = "number" ->
         [heap |-> (NewId(h) :> JSONElementNumberIntegerUint(NewId(h), 7)) @@ h,
          id |-> NewId(h)]
    [] kind = "shared" -> [heap |-> h, id |-> a]

NoOp ==
  [op |-> "", err |-> "", path |-> <<>>, value |-> 0, args |-> <<>>,
   old |-> JSONElementNull]

\* the operations whose arguments last keeps
Recorded ==
  {"assign", "assign_keys", "set_array", "set_object", "construct", "parse"}

\* what a handle denotes, taken apart from the live allocations
Snapshot(h, id) ==
  Relabel(View(h, id), -1000)

Init ==
  \E text \in InitTexts :
    \E r \in {context_parse(text, 0)} :
      /\ r.err = ""
      /\ heap = Store(<<>>, r.val)
      /\ b = r.val.id
      /\ a = r.val.id
      /\ a_before = Relabel(r.val, -1000)
      /\ a_text = encode(r.val).text
      /\ last = NoOp
      /\ nops = 0
      /\ NotApplying
      /\ threads = <<>>

\* the step every operation on b ends with: the variable takes the new
\* handle, the old one is dropped; an operation that threw changes nothing
Outcome(op, r, path, value, args) ==
  /\ nops < MaxOps
  /\ nops' = nops + 1
  /\ IF r.err = ""
       THEN /\ heap' = Release(r.heap, {r.m_v, a})
            /\ b' = r.m_v
            /\ last' = IF op \in Recorded
                         THEN [op |-> op, err |-> "", path |-> path,
                               value |-> value, args |-> args,
                               old |-> View(heap, b)]
                         ELSE [NoOp EXCEPT !.op = op]
       ELSE /\ heap' = Release(r.heap, {r.m_v, a})
            /\ b' = r.m_v
            /\ last' = [NoOp EXCEPT !.op = op, !.err = r.err,
                                    !.old = View(heap, b)]
  /\ UNCHANGED <<a, a_before, a_text, applying, threads>>

\* mod(b)[..] = x
Assign ==
  \E path \in Paths, kind \in ArgKinds :
    LET x == Arg(heap, kind)
    IN Outcome("assign", assign(x.heap, b, path, x.id), path, x.id, <<>>)

\* mod(b)[..].push_back(x)
PushBack ==
  \E path \in ShortPaths, kind \in ArgKinds :
    LET x == Arg(heap, kind)
    IN Outcome("push_back", push_back(x.heap, b, path, x.id), path, x.id, <<>>)

\* mod(b)[..][i].insert_at(x)
InsertAt ==
  \E path \in IndexPaths, kind \in ArgKinds :
    LET x == Arg(heap, kind)
    IN Outcome("insert_at",
               insert_at(x.heap, b, Parent(path), path[Len(path)].index, x.id),
               path, x.id, <<>>)

\* mod(b)[..][i].insert_all_at({x, null})
InsertAllAt ==
  \E path \in IndexPaths, kind \in ArgKinds :
    LET x == Arg(heap, kind)
    IN Outcome("insert_all_at",
               insert_all_at(x.heap, b, Parent(path), path[Len(path)].index,
                             <<x.id, 0>>),
               path, x.id, <<x.id, 0>>)

\* mod(b)[..][i].erase() and mod(b)[..][key].erase()
Erase ==
  \E path \in IndexPaths \cup KeyPaths :
    LET step == path[Len(path)]
    IN Outcome("erase",
               IF step.kind = "index"
                 THEN JModArrayPoint_erase(heap, b, Parent(path), step.index)
                 ELSE JModObjectPoint_erase(heap, b, Parent(path), step.key),
               path, 0, <<>>)

\* mod(b)[..][i].erase_count(count)
EraseCount ==
  \E path \in IndexPaths, count \in 1..2 :
    Outcome("erase_count",
            erase_count(heap, b, Parent(path), path[Len(path)].index, count),
            path, 0, <<count>>)

\* mod(b)[..].erase_indexes(set) and mod(b)[..].erase_keys(set)
EraseSet ==
  \/ \E path \in ShortPaths, indexes \in SUBSET (0..MaxIndex) \ {{}} :
       Outcome("erase_indexes", erase_indexes(heap, b, path, indexes), path, 0,
               <<indexes>>)
  \/ \E path \in ShortPaths, keys \in SUBSET Keys \ {{}} :
       Outcome("erase_keys", erase_keys(heap, b, path, keys), path, 0, <<keys>>)

\* mod(b)[..].erase_indexes_if(f) and mod(b)[..].erase_keys_if(f): the
\* predicates "the index is odd" and "the key is not a"
EraseIf ==
  \/ \E path \in ShortPaths :
       Outcome("erase_indexes_if",
               erase_indexes_if(heap, b, path, {i \in Nat : i % 2 = 1}),
               path, 0, <<>>)
  \/ \E path \in ShortPaths :
       Outcome("erase_keys_if",
               erase_keys_if(heap, b, path, Keys \ {<<97>>}), path, 0, <<>>)

\* the key/value lists given to assign_keys, set and the constructor
PairLists(x) ==
  {<<[key |-> k1, val |-> x]>> : k1 \in Keys}
  \cup {<<[key |-> k1, val |-> 0], [key |-> k2, val |-> x]>> :
          k1 \in Keys, k2 \in Keys}

\* mod(b)[..].assign_keys(newKeys)
AssignKeys ==
  \E path \in ShortPaths, kind \in ArgKinds :
    LET x == Arg(heap, kind)
    IN \E newKeys \in PairLists(x.id) :
         Outcome("assign_keys", assign_keys(x.heap, b, path, newKeys), path,
                 x.id, newKeys)

\* b.set(i, x) and b.set(i, null, j, x)
SetArray ==
  \E kind \in ArgKinds, i \in 0..MaxIndex, j \in 0..MaxIndex, two \in BOOLEAN :
    LET x == Arg(heap, kind)
        args == IF two THEN <<[key |-> i, val |-> 0], [key |-> j, val |-> x.id]>>
                ELSE <<[key |-> i, val |-> x.id]>>
    IN Outcome("set_array", Json_set_array(x.heap, b, args), <<>>, x.id, args)

\* b.set(key, x) and b.set(key, null, key2, x)
SetObject ==
  \E kind \in ArgKinds :
    LET x == Arg(heap, kind)
    IN \E args \in PairLists(x.id) :
         Outcome("set_object", Json_set_object(x.heap, b, args), <<>>, x.id,
                 args)

\* b = Json(ObjectBody): an object constructed from a pair list
Construct ==
  \E kind \in ArgKinds :
    LET x == Arg(heap, kind)
    IN \E body \in PairLists(x.id) :
         Outcome("construct",
                 [err |-> "", heap |-> NewObject(x.heap, body),
                  m_v |-> NewId(x.heap)],
                 <<>>, x.id, body)

\* b = Json::parse(text), for object documents with repeated keys
ObjectTexts ==
  { Txt(<<"{", "\"", "a", "\"", ":", "1", ",", "\"", "b", "\"", ":", "2", ",",
          "\"", "a", "\"", ":", "3", "}">>),
    <<123, 34, 195, 169, 34, 58, 49, 44, 34, 97, 34, 58, 50, 44,
      34, 195, 169, 34, 58, 51, 125>> }

Reparse ==
  \E text \in ObjectTexts :
    \E base \in {NewId(heap)} :
      \E r \in {context_parse(text, base)} :
        \E raw \in {ReadObjectItems(text, 2, FALSE, base, <<>>).items} :
          Outcome("parse",
                  [err |-> r.err, heap |-> Store(heap, r.val), m_v |-> r.val.id],
                  <<>>, 0,
                  [i \in 1..Len(raw) |->
                     [key |-> raw[i].key, val |-> raw[i].val.id]])

\* a = b[..]: before the edits, a takes a copy of the handle of one of b's
\* elements instead of b's own
CopyHandle ==
  \E path \in Paths :
    \E cur \in {currentValue(heap, b, path)} :
      /\ last = NoOp
      /\ cur.err = ""
      /\ cur.id # a
      /\ a' = cur.id
      /\ a_before' = Snapshot(heap, cur.id)
      /\ a_text' = encode(View(heap, cur.id)).text
      /\ heap' = Release(heap, {b, cur.id})
      /\ last' = [NoOp EXCEPT !.op = "copy"]
      /\ UNCHANGED <<b, nops, applying, threads>>

Next ==
  \/ Assign
  \/ PushBack
  \/ InsertAt
  \/ InsertAllAt
  \/ Erase
  \/ EraseCount
  \/ EraseSet
  \/ EraseIf
  \/ AssignKeys
  \/ SetArray
  \/ SetObject
  \/ Construct
  \/ Reparse
  \/ CopyHandle

Spec ==
  Init /\ [][Next]_vars

(***************************************************************************)
(* The comparator applied to Values of every kind.  Each Value is built by *)
(* a Json constructor in an allocation of its own; v1, v2 and v3 are drawn *)
(* from them.                                                              *)
(***************************************************************************)
\* 2^70 = 1180591620717411303424, a long double with its digits
Pow2_70 ==
  [cls |-> "fin", neg |-> FALSE, exponent |-> 22,
   digits |-> <<1, 1, 8, 0, 5, 9, 1, 6, 2, 0, 7, 1, 7, 4, 1, 1, 3, 0, 3, 4, 2, 4>>]

\* Json(long double)
JsonOfLongDouble(id, neg, digits, exponent) ==
  JSONElementNumberDouble(
    id, [cls |-> "fin", neg |-> neg, digits |-> digits, exponent |-> exponent], 0)

\* Json(GeneralNumber::parse(text))
JsonOfGeneralNumber(id, text) ==
  JSONElementNumberGeneral(id, GNParse(Txt(text)).gn)

\* the Values compared, by allocation
ComparedValues ==
  <<JSONElementBool(1, TRUE),
    JSONElementNumberIntegerUint(2, 0),
    JSONElementNumberIntegerUint(3, 1),
    JSONElementNumberIntegerUint(4, 1),
    JSONElementNumberInteger(5, -5),
    JsonOfLongDouble(6, FALSE, <<>>, 0),
    JsonOfLongDouble(7, FALSE, <<1>>, 1),
    JsonOfLongDouble(8, TRUE, <<5>>, 1),
    JsonOfLongDouble(9, FALSE, <<1, 5>>, 1),
    JSONElementNumberDouble(10, Pow2_70, 0),
    JSONElementNumberDouble(11, FloatNaN, 0),
    JsonOfGeneralNumber(12, <<"0", ".", "0">>),
    JsonOfGeneralNumber(13, <<"1">>),
    JsonOfGeneralNumber(14, <<"1", ".", "0">>),
    JsonOfGeneralNumber(15, <<"-", "5">>),
    JsonOfGeneralNumber(16, <<"-", "5", ".", "0">>),
    JSONElementNumberGeneral(17, [is_decimal |-> FALSE, negative |-> FALSE,
                                  exponent |-> 22, digits |-> Pow2_70.digits]),
    JSONElementString(18, <<97>>),
    JSONElementArray(19, <<JSONElementNumberIntegerUint(20, 1)>>),
    JSONElementArray(21, <<JsonOfLongDouble(22, FALSE, <<1>>, 1)>>),
    JSONElementObject(23, <<[key |-> <<97>>,
                             val |-> JsonOfGeneralNumber(24, <<"1">>)]>>)>>

InitCompare ==
  /\ v1 \in {JSONElementNull} \cup {ComparedValues[i] : i \in DOMAIN ComparedValues}
  /\ v2 \in {ComparedValues[i] : i \in DOMAIN ComparedValues}
  /\ v3 \in {ComparedValues[i] : i \in DOMAIN ComparedValues}
  /\ result = [done |-> FALSE]
  /\ NotEditing
  /\ threads = <<>>

\* compare(v1, v2) and the comparisons that go with it
Compare ==
  /\ ~result.done
  /\ result' = [done |-> TRUE,
                c12 |-> s_compare(v1, v2), c21 |-> s_compare(v2, v1),
                c23 |-> s_compare(v2, v3), c13 |-> s_compare(v1, v3)]
  /\ UNCHANGED <<v1, v2, v3, editing, threads>>

SpecCompare ==
  InitCompare /\ [][Compare]_vars

(***************************************************************************)
(* Encoding and parsing back.  v1 is a Value built by constructors, a_text *)
(* a number literal; result records one trip through encode and parse.     *)
(***************************************************************************)
\* Json::parse(string), or parsing with use_GN_for_floats set
parse(text, use_GN_for_floats, base) ==
  IF use_GN_for_floats THEN parse_streambuf(text, TRUE, base)
  ELSE context_parse(text, base)

\* the allocations below those parsing makes: the ones of v are live
ParsedBase(v) ==
  NewId(Store(<<>>, v))

\* the Values encoded, by allocation; none is a NaN or an infinity
EncodedValues ==
  {JSONElementNull,
   JSONElementBool(1, TRUE),
   JSONElementBool(2, FALSE),
   JSONElementNumberIntegerUint(3, 0),
   JSONElementNumberIntegerUint(4, 17),
   JSONElementNumberInteger(5, -5),
   JsonOfLongDouble(6, FALSE, <<1>>, 1),
   JsonOfLongDouble(7, FALSE, <<1, 5>>, 1),
   JsonOfLongDouble(8, TRUE, <<2, 5>>, 0),
   JsonOfLongDouble(9, FALSE, <<>>, 0),
   JsonOfGeneralNumber(10, <<"1", ".", "5">>),
   JsonOfGeneralNumber(11, <<"1", ".", "0">>),
   JsonOfGeneralNumber(12, <<"-", "2", "e", "3">>),
   JsonOfGeneralNumber(13, <<"0", ".", "0">>),
   JsonOfGeneralNumber(14, <<"4", "2">>),
   JSONElementString(15, <<>>),
   JSONElementString(16, <<97, 34, 10>>),
   JSONElementString(17, <<195, 169>>),
   JSONElementArray(18, <<>>),
   JSONElementArray(19, <<JSONElementNull, JSONElementBool(20, TRUE),
                          JSONElementNumberInteger(21, -5)>>),
   JSONElementArray(22, <<JsonOfLongDouble(23, FALSE, <<1, 5>>, 1)>>),
   JSONElementObject(24, <<>>),
   JSONElementObject(25, <<[key |-> <<98>>,
                            val |-> JsonOfGeneralNumber(26, <<"1", ".", "5">>)],
                           [key |-> <<97>>,
                            val |-> JSONElementArray(27,
                                      <<JSONElementString(28, <<97>>)>>)]>>)}

\* decimal literals with more significant digits than a long double holds
LongLiterals ==
  {Txt(<<"1", ".", "2", "3", "4", "5", "6", "7", "8", "9", "0", "1", "2", "3",
         "4", "5", "6", "7", "8", "9", "0", "1", "2", "3", "4", "5", "6", "7",
         "8", "9", "0">>),
   Txt(<<"3", ".", "1", "4", "1", "5", "9", "2", "6", "5", "3", "5", "8", "9",
         "7", "9", "3", "2", "3", "8", "4", "6", "2", "6", "4", "3", "3", "8",
         "3", "2", "7">>),
   Txt(<<"-", "0", ".", "1", "0", "0", "0", "0", "0", "0", "0", "0", "0", "0",
         "0", "0", "0", "0", "0", "0", "0", "0", "0", "0", "0", "0", "1">>),
   Txt(<<"1", "2", "3", "4", "5", "6", "7", "8", "9", "0", "1", "2", "3", "4",
         "5", "6", "7", "8", "9", "0", "1", "2", "3", "4", "5", ".", "5">>)}

InitRoundTrip ==
  /\ v1 \in EncodedValues
  /\ a_text \in LongLiterals
  /\ v2 = JSONElementNull
  /\ v3 = JSONElementNull
  /\ result = [done |-> FALSE]
  /\ heap = <<>>
  /\ b = 0
  /\ a = 0
  /\ a_before = JSONElementNull
  /\ last = [op |-> ""]
  /\ nops = 0
  /\ threads = <<>>

\* v2 = parse(encode(v1)) and compare(v1, v2)
EncodeThenParse ==
  /\ ~result.done
  /\ \E use_GN_for_floats \in BOOLEAN :
       \E e \in {encode(v1)} :
         \E r \in {IF e.err # "" THEN ParseFail(e.err, 0)
                   ELSE parse(e.text, use_GN_for_floats, ParsedBase(v1))} :
           /\ v2' = IF r.err # "" THEN JSONElementNull ELSE r.val
           /\ result' = [done |-> TRUE, op |-> "encode_parse",
                         use_GN_for_floats |-> use_GN_for_floats,
                         err |-> r.err, text |-> e.text,
                         compare |-> IF r.err # "" THEN TERMINATED
                                     ELSE s_compare(v1, r.val)]
  /\ UNCHANGED <<v1, v3, editing, threads>>

\* v2 = parse(a_text) and encode(v2)
ParseThenEncode ==
  /\ ~result.done
  /\ \E use_GN_for_floats \in BOOLEAN :
       \E r \in {parse(a_text, use_GN_for_floats, ParsedBase(v1))} :
         \E e \in {IF r.err # "" THEN [err |-> r.err, text |-> <<>>]
                   ELSE encode(r.val)} :
           /\ v2' = IF r.err # "" THEN JSONElementNull ELSE r.val
           /\ result' = [done |-> TRUE, op |-> "parse_encode",
                         use_GN_for_floats |-> use_GN_for_floats,
                         err |-> e.err, text |-> e.text, compare |-> 0]
  /\ UNCHANGED <<v1, v3, editing, threads>>

NextRoundTrip ==
  \/ EncodeThenParse
  \/ ParseThenEncode

SpecRoundTrip ==
  InitRoundTrip /\ [][NextRoundTrip]_vars

(***************************************************************************)
(* Threads sharing a tree.  Every thread owns a Json copied from the       *)
(* handle a when it was started.  A reader runs encode or a chain of get   *)
(* over its handle, one element read per step, and copies and drops        *)
(* handles; a writer edits its own handle through mod(): it builds the new *)
(* elements (pending holds their handle), then its variable takes the new   *)
(* handle and drops the old one.                                           *)
(* a_before is the tree as it was constructed.                             *)
(***************************************************************************)
Readers ==
  {1, 2}

Writers ==
  {3}

MaxEdits ==
  2

\* what a read of a released allocation yields
Released ==
  [JSONElementNull EXCEPT !.id = -2]

\* the element a thread reads through a handle
ReadCell(h, id) ==
  IF id \in DOMAIN h \cup {0} THEN Cell(h, id) ELSE Released

\* the paths readers follow with get, and writers assign through
ThreadPaths ==
  {<<IndexStep(1)>>, <<KeyStep(<<97>>)>>, <<KeyStep(<<98>>), KeyStep(<<97>>)>>,
   <<IndexStep(1), KeyStep(<<98>>)>>, <<KeyStep(<<97>>), IndexStep(2)>>}

\* every handle alive in some thread, with the handles a traversal holds
Handles(th) ==
  {a} \cup UNION {{th[t].handle, th[t].copy} \cup
                  {th[t].todo[i] : i \in 1..Len(th[t].todo)} \cup
                  {th[t].pending[i] : i \in 1..Len(th[t].pending)}
                  : t \in DOMAIN th}

InitThreads ==
  \E text \in InitTexts :
    \E r \in {context_parse(text, 0)} :
      /\ r.err = ""
      /\ heap = Store(<<>>, r.val)
      /\ b = r.val.id
      /\ a = r.val.id
      /\ a_before = r.val
      /\ a_text = encode(r.val).text
      /\ last = NoOp
      /\ nops = 0
      /\ NotApplying
      /\ threads = [t \in Readers \cup Writers |->
                      [handle |-> r.val.id, copy |-> 0, mode |-> "idle",
                       todo |-> <<>>, path |-> <<>>, seen |-> <<>>,
                       pending |-> <<>>, edits |-> 0]]

\* a reader calls encode on its handle
BeginEncode(t) ==
  /\ threads[t].mode = "idle"
  /\ threads' = [threads EXCEPT ![t].mode = "encode",
                                ![t].todo = <<threads[t].handle>>,
                                ![t].seen = <<>>]
  /\ UNCHANGED <<editing, applying>>

\* a reader calls get(..).get(..) on its handle
BeginGet(t) ==
  /\ threads[t].mode = "idle"
  /\ \E path \in ThreadPaths :
       threads' = [threads EXCEPT ![t].mode = "get",
                                  ![t].todo = <<threads[t].handle>>,
                                  ![t].path = path,
                                  ![t].seen = <<>>]
  /\ UNCHANGED <<editing, applying>>

\* the reader reads the next element: p_write writes it and goes on with
\* its children, get looks the next key up in it
ReadElement(t) ==
  /\ threads[t].mode # "idle"
  /\ threads[t].todo # <<>>
  /\ \E c \in {ReadCell(heap, Head(threads[t].todo))} :
       \E child \in {IF threads[t].path = <<>> THEN [err |-> "end", id |-> 0]
                     ELSE Json_get([i \in {c.id} |-> c], c.id,
                                   Head(threads[t].path))} :
         threads' = [threads EXCEPT
           ![t].seen = Append(@, c),
           ![t].todo = IF threads[t].mode = "encode" THEN c.elems \o Tail(@)
                       ELSE IF child.err # "" THEN <<>>
                       ELSE <<child.id>>,
           ![t].path = IF @ = <<>> THEN <<>> ELSE Tail(@)]
  /\ UNCHANGED <<editing, applying>>

\* the call returns
EndRead(t) ==
  /\ threads[t].mode # "idle"
  /\ threads[t].todo = <<>>
  /\ threads' = [threads EXCEPT ![t].mode = "idle", ![t].path = <<>>,
                                ![t].seen = <<>>]
  /\ UNCHANGED <<editing, applying>>

\* Json copy = handle, and the destruction of the copy
CopyJson(t) ==
  /\ threads[t].mode = "idle"
  /\ t \in Readers
  /\ \E th \in {[threads EXCEPT ![t].copy = IF @ = 0 THEN threads[t].handle
                                             ELSE 0]} :
       /\ threads' = th
       /\ heap' = Release(heap, Handles(th))
  /\ UNCHANGED <<b, a, a_before, a_text, last, nops, applying>>

\* mod(handle)[..] = x or mod(handle)[..].push_back(x): the new elements
\* are made; an edit that throws leaves the handle as it is
BuildEdit(t) ==
  /\ threads[t].pending = <<>>
  /\ threads[t].edits < MaxEdits
  /\ \E path \in ThreadPaths, kind \in ArgKinds, op \in {"assign", "push_back"} :
       \E x \in {Arg(heap, kind)} :
         \E r \in {IF op = "assign"
                     THEN assign(x.heap, threads[t].handle, path, x.id)
                   ELSE push_back(x.heap, threads[t].handle, Parent(path), x.id)} :
           IF r.err = ""
             THEN /\ heap' = r.heap
                  /\ threads' = [threads EXCEPT ![t].pending = <<r.m_v>>]
             ELSE /\ heap' = heap
                  /\ threads' = [threads EXCEPT ![t].edits = @ + 1]
  /\ UNCHANGED <<b, a, a_before, a_text, last, nops, applying>>

\* the writer's variable takes the new handle; the old one is dropped
CommitEdit(t) ==
  /\ threads[t].pending # <<>>
  /\ \E th \in {[threads EXCEPT ![t].handle = threads[t].pending[1],
                                ![t].pending = <<>>,
                                ![t].edits = @ + 1]} :
       /\ threads' = th
       /\ heap' = Release(heap, Handles(th))
  /\ UNCHANGED <<b, a, a_before, a_text, last, nops, applying>>

NextThreads ==
  \/ \E t \in Readers : BeginEncode(t)
  \/ \E t \in Readers : BeginGet(t)
  \/ \E t \in Readers : ReadElement(t)
  \/ \E t \in Readers : EndRead(t)
  \/ \E t \in Readers : CopyJson(t)
  \/ \E t \in Writers : BuildEdit(t)
  \/ \E t \in Writers : CommitEdit(t)

SpecThreads ==
  InitThreads /\ [][NextThreads]_vars

(***************************************************************************)
(* Parsing documents.  A document is a sequence of tokens; the text parsed *)
(* is the document as written, or with a comma before a closing bracket,   *)
(* with a comment between two tokens, with bytes after the last token, or  *)
(* cut short.  a_text is the text, last says how it was made, nops counts  *)
(* the extractions from the stream and result is the last outcome.         *)
(***************************************************************************)
RECURSIVE Join(_)
\* the bytes of a token sequence
Join(tokens) ==
  IF tokens = <<>> THEN <<>> ELSE Head(tokens) \o Join(Tail(tokens))

\* [null,1]   {"a":[true],"b":{}}   [[],{"a":-2.5}]   "aé\n"
\* false   12   [{"b":[1,"s"]}]
Docs ==
  { <<Txt(<<"[">>), Txt(<<"n", "u", "l", "l">>), Txt(<<",">>), Txt(<<"1">>),
      Txt(<<"]">>)>>,
    <<Txt(<<"{">>), Txt(<<"\"", "a", "\"">>), Txt(<<":">>), Txt(<<"[">>),
      Txt(<<"t", "r", "u", "e">>), Txt(<<"]">>), Txt(<<",">>),
      Txt(<<"\"", "b", "\"">>), Txt(<<":">>), Txt(<<"{">>), Txt(<<"}">>),
      Txt(<<"}">>)>>,
    <<Txt(<<"[">>), Txt(<<"[">>), Txt(<<"]">>), Txt(<<",">>), Txt(<<"{">>),
      Txt(<<"\"", "a", "\"">>), Txt(<<":">>), Txt(<<"-", "2", ".", "5">>),
      Txt(<<"}">>), Txt(<<"]">>)>>,
    <<Txt(<<"\"", "a", "\\", "u", "0", "0", "e", "9", "\\", "n", "\"">>)>>,
    <<Txt(<<"f", "a", "l", "s", "e">>)>>,
    <<Txt(<<"1", "2">>)>>,
    <<Txt(<<"[">>), Txt(<<"{">>), Txt(<<"\"", "b", "\"">>), Txt(<<":">>),
      Txt(<<"[">>), Txt(<<"1">>), Txt(<<",">>), Txt(<<"\"", "s", "\"">>),
      Txt(<<"]">>), Txt(<<"}">>), Txt(<<"]">>)>> }

Opening ==
  {<<91>>, <<123>>}

Closing ==
  {<<93>>, <<125>>}

\* /*x*/ and //x with its newline
BlockCommentText ==
  <<47, 42, 120, 42, 47>>

LineCommentText ==
  <<47, 47, 120, 10>>

\* //x, ended by the end of the input
OpenLineCommentText ==
  <<47, 47, 120>>

\* what may stand where whitespace is allowed
Blanks ==
  {<<>>, <<32>>, <<10, 9>>, BlockCommentText, LineCommentText,
   <<32>> \o BlockCommentText \o LineCommentText}

\* bytes after the value that are not blank: x  1  ,  ]  /*x*/null
\* a slash that starts no comment, and comments that do not end
TrailingBytes ==
  {<<120>>, <<32, 49>>, <<44>>, <<93>>,
   BlockCommentText \o Txt(<<"n", "u", "l", "l">>)}

BadComments ==
  {<<47, 120>>, <<32, 47>>, <<47, 42, 120>>, OpenLineCommentText}

\* the document with tok put in after its first k tokens
InsertToken(doc, k, tok) ==
  SubSeq(doc, 1, k) \o <<tok>> \o SubSeq(doc, k + 1, Len(doc))

\* the closing brackets of the containers that have elements
ClosingsAfterElement(doc) ==
  {i \in 2..Len(doc) : doc[i] \in Closing /\ doc[i - 1] \notin Opening}

\* the documents no proper prefix of which is a value
Delimited(doc) ==
  doc[1] \in Opening \/ Head(doc[1]) \in {34, 102}

\* how a text is made of a document: [kind, doc, at, with]
Variations(doc) ==
  {[kind |-> "plain", doc |-> doc, at |-> 0, with |-> <<>>]}
  \cup {[kind |-> "comma", doc |-> doc, at |-> i, with |-> w] :
          i \in ClosingsAfterElement(doc), w \in Blanks}
  \cup {[kind |-> "comment", doc |-> doc, at |-> k, with |-> w] :
          k \in 0..Len(doc), w \in {BlockCommentText, LineCommentText}}
  \cup {[kind |-> "comment", doc |-> doc, at |-> Len(doc),
         with |-> OpenLineCommentText]}
  \cup {[kind |-> "blank", doc |-> doc, at |-> Len(doc), with |-> w] :
          w \in Blanks}
  \cup {[kind |-> "trailing", doc |-> doc, at |-> Len(doc), with |-> w] :
          w \in TrailingBytes}
  \cup {[kind |-> "badcomment", doc |-> doc, at |-> Len(doc), with |-> w] :
          w \in BadComments}
  \cup {[kind |-> "second", doc |-> doc, at |-> Len(doc), with |-> w] :
          w \in {<<32, 49>>, <<10>> \o Txt(<<"[", "]">>) \o <<32>>}}
  \cup {[kind |-> "cut", doc |-> doc, at |-> k, with |-> w] :
          k \in IF Delimited(doc) THEN 0..(Len(Join(doc)) - 1) ELSE {0},
          w \in {<<>>, <<32>>, BlockCommentText, LineCommentText}}

\* the text of a variation
TextOf(var) ==
  CASE var.kind = "plain" -> Join(var.doc)
    [] var.kind = "comma" ->
         Join(InsertToken(var.doc, var.at - 1, <<44>> \o var.with))
    [] var.kind = "comment" -> Join(InsertToken(var.doc, var.at, var.with))
    [] var.kind = "cut" -> var.with \o SubSeq(Join(var.doc), 1, var.at)
    [] OTHER -> Join(var.doc) \o var.with

MaxExtract ==
  3

InitParse ==
  \E doc \in Docs :
    \E var \in Variations(doc) :
      /\ a_text = TextOf(var)
      /\ last = var
      /\ nops = 0
      /\ result = [done |-> FALSE, op |-> "", err |-> "", from |-> 1, pos |-> 1]
      /\ v1 = JSONElementNull
      /\ v2 = JSONElementNull
      /\ v3 = JSONElementNull
      /\ heap = <<>>
      /\ b = 0
      /\ a = 0
      /\ a_before = JSONElementNull
      /\ threads = <<>>

\* Json::parse(a_text)
ParseText ==
  /\ ~result.done
  /\ \E r \in {context_parse(a_text, 0)} :
       /\ result' = [done |-> TRUE, op |-> "parse", err |-> r.err,
                     from |-> 1, pos |-> r.pos]
       /\ v2' = IF r.err = "" THEN r.val ELSE JSONElementNull
  /\ nops' = 1
  /\ UNCHANGED <<heap, b, a, a_before, a_text, last, v1, v3, threads>>

\* the position of the stream behind a_text
StreamPos ==
  result.pos

\* stream >> json: the next value is taken from the stream; a stream that
\* has failed is not read again
Extract ==
  /\ nops < MaxExtract
  /\ result.op \in {"", "extract"}
  /\ result.err = ""
  /\ \E r \in {read_json(a_text, StreamPos, FALSE, 0)} :
       /\ result' = [done |-> TRUE, op |-> "extract", err |-> r.err,
                     from |-> StreamPos, pos |-> r.pos]
       /\ v2' = IF r.err = "" THEN r.val ELSE v2
  /\ nops' = nops + 1
  /\ UNCHANGED <<heap, b, a, a_before, a_text, last, v1, v3, threads>>

NextParse ==
  \/ ParseText
  \/ Extract

SpecParse ==
  InitParse /\ [][NextParse]_vars

(***************************************************************************)
(* Element access.  b is the receiver, parsed from a text; every lookup    *)
(* is applied to it with every subscript, and result keeps what it gave:   *)
(* the error thrown, whether an element was found, whether the default     *)
(* came back, and the Value handed out.                                    *)
(***************************************************************************)
\* null  false  0  "a"  []  {}
\* [null,false,0]  [-1,0.5,"s"]  [[],{"a":1}]
\* {"a":null,"é":false}  {"a":0.5}  {"a":"s","é":[0]}  {"é":{}}
\* {"z": 1, "a": 2, "m": 3}
AccessTexts ==
  { Txt(<<"n", "u", "l", "l">>),
    Txt(<<"f", "a", "l", "s", "e">>),
    Txt(<<"0">>),
    Txt(<<"\"", "a", "\"">>),
    Txt(<<"[", "]">>),
    Txt(<<"{", "}">>),
    Txt(<<"[", "n", "u", "l", "l", ",", "f", "a", "l", "s", "e", ",", "0",
          "]">>),
    Txt(<<"[", "-", "1", ",", "0", ".", "5", ",", "\"", "s", "\"", "]">>),
    Txt(<<"[", "[", "]", ",", "{", "\"", "a", "\"", ":", "1", "}", "]">>),
    Txt(<<"{", "\"", "a", "\"", ":", "n", "u", "l", "l", ",", "\"">>)
      \o <<195, 169>> \o Txt(<<"\"", ":", "f", "a", "l", "s", "e", "}">>),
    Txt(<<"{", "\"", "a", "\"", ":", "0", ".", "5", "}">>),
    Txt(<<"{", "\"", "a", "\"", ":", "\"", "s", "\"", ",", "\"">>)
      \o <<195, 169>> \o Txt(<<"\"", ":", "[", "0", "]", "}">>),
    Txt(<<"{", "\"">>) \o <<195, 169>> \o Txt(<<"\"", ":", "{", "}", "}">>),
    Txt(<<"{", "\"">>) \o <<122>> \o Txt(<<"\"", ":", " ", "1", ",", " ", "\"",
          "a", "\"", ":", " ", "2", ",", " ", "\"">>) \o <<109>>
      \o Txt(<<"\"", ":", " ", "3", "}">>) }

\* the defaults handed to get: none (the null Json) or a new number
Defaults ==
  {"null", "number"}

\* the store and the handle after the default of a get was constructed
DefaultArg(h, default) ==
  IF default = "null" THEN [heap |-> h, id |-> 0] ELSE Arg(h, "number")

\* what a KeyError carries: ArrayKeyError(index, size()), ObjectKeyError(key)
KeyError_what(h, id, step) ==
  IF step.kind = "index"
    THEN <<step.index, Len(Cell(h, id).elems)>>
    ELSE step.key

NoAccess ==
  [done |-> FALSE, op |-> "", step |-> IndexStep(0), type |-> "",
   default |-> "", err |-> "", found |-> FALSE, dflt |-> FALSE,
   val |-> JSONElementNull, what |-> <<>>]

InitAccess ==
  \E text \in AccessTexts :
    \E r \in {context_parse(text, 0)} :
      /\ r.err = ""
      /\ heap = Store(<<>>, r.val)
      /\ b = r.val.id
      /\ a = 0
      /\ a_before = JSONElementNull
      /\ a_text = text
      /\ last = NoOp
      /\ nops = 0
      /\ v1 = r.val
      /\ v2 = JSONElementNull
      /\ v3 = JSONElementNull
      /\ result = NoAccess
      /\ threads = <<>>

\* what every lookup leaves alone: lookups are read-only
Looked ==
  /\ ~result.done
  /\ nops' = nops + 1
  /\ UNCHANGED <<heap, b, a, a_before, a_text, last, v1, v2, v3, threads>>

\* b.find_key(step)
Find ==
  /\ Looked
  /\ \E step \in Steps :
       \E r \in {find_key(heap, b, step)} :
         result' = [NoAccess EXCEPT !.done = TRUE, !.op = "find",
                      !.step = step, !.err = r.err, !.found = r.found,
                      !.val = View(heap, r.id)]

\* b.get(step) and b.get(step, 7)
Get ==
  /\ Looked
  /\ \E step \in Steps, default \in Defaults :
       \E d \in {DefaultArg(heap, default)} :
         \E r \in {Json_get_or(d.heap, b, step, d.id)} :
           result' = [NoAccess EXCEPT !.done = TRUE, !.op = "get",
                        !.step = step, !.default = default, !.err = r.err,
                        !.dflt = (r.err = "" /\ r.id = d.id),
                        !.val = View(d.heap, r.id)]

\* b[step]
Subscript ==
  /\ Looked
  /\ \E step \in Steps :
       \E r \in {Json_subscript(heap, b, step)} :
         result' = [NoAccess EXCEPT !.done = TRUE, !.op = "subscript",
                      !.step = step, !.err = r.err,
                      !.val = View(heap, r.id),
                      !.what = IF r.err \in {"ArrayKeyError", "ObjectKeyError"}
                                 THEN KeyError_what(heap, b, step)
                                 ELSE <<>>]

\* b.get_TYPE(step, default_value)
GetAs ==
  /\ Looked
  /\ \E step \in Steps, TYPE \in GetAsTypes :
       \E r \in {Json_get_as(TYPE, heap, b, step)} :
         result' = [NoAccess EXCEPT !.done = TRUE, !.op = "get_as",
                      !.step = step, !.type = TYPE, !.err = r.err,
                      !.dflt = r.dflt, !.val = View(heap, r.id)]

\* for (auto const &[key, value] : b.as_object()): the keys as visited
Iterate ==
  /\ Looked
  /\ \E err \in {as_TYPE("object", Cell(heap, b))} :
       result' = [NoAccess EXCEPT !.done = TRUE, !.op = "as_object",
                    !.err = err,
                    !.what = IF err # "" THEN <<>>
                             ELSE [i \in 1..Len(ObjectBody(heap, b)) |->
                                     ObjectBody(heap, b)[i].key]]

NextAccess ==
  \/ Iterate
  \/ Find
  \/ Get
  \/ Subscript
  \/ GetAs

SpecAccess ==
  InitAccess /\ [][NextAccess]_vars

(***************************************************************************)
(* The numeric-literal scanner.  a_text is what the stream holds; the      *)
(* scan is GeneralNumber::parse(streambuf&) from its first byte, and       *)
(* result keeps whether it returned, the error thrown, the number, and the *)
(* position of the next byte the stream would give.                        *)
(***************************************************************************)
\* - 0 1 . e + and a byte no literal holds
NumberBytes ==
  {45, 48, 49, 46, 101, 43, 120}

MaxLiteral ==
  4

\* literals around the ends of the exponent range, and with 'E':
\* 1e9999x  1e32768  1e99999  1e-32768  1e-9999  2E-1x  1E+5  0.001e-9999
ExponentLiterals ==
  { Txt(<<"1", "e", "9", "9", "9", "9", "x">>),
    Txt(<<"1", "e", "3", "2", "7", "6", "8">>),
    Txt(<<"1", "e", "9", "9", "9", "9", "9">>),
    Txt(<<"1", "e", "-", "3", "2", "7", "6", "8">>),
    Txt(<<"1", "e", "-", "9", "9", "9", "9">>),
    Txt(<<"2", "E", "-", "1", "x">>),
    Txt(<<"1", "E", "+", "5">>),
    Txt(<<"0", ".", "0", "0", "1", "e", "-", "9", "9", "9", "9">>) }

NumberTexts ==
  UNION {[1..k -> NumberBytes] : k \in 0..MaxLiteral} \cup ExponentLiterals

NoScan ==
  [done |-> FALSE, ok |-> FALSE, err |-> "", pos |-> 1,
   gn |-> GeneralNumberData]

InitNumber ==
  \E text \in NumberTexts :
    /\ a_text = text
    /\ result = NoScan
    /\ nops = 0
    /\ last = NoOp
    /\ v1 = JSONElementNull
    /\ v2 = JSONElementNull
    /\ v3 = JSONElementNull
    /\ heap = <<>>
    /\ b = 0
    /\ a = 0
    /\ a_before = JSONElementNull
    /\ threads = <<>>

\* GeneralNumber::parse(sbuf) on a stream holding a_text
ScanNumber ==
  /\ ~result.done
  /\ \E r \in {GNParseAt(a_text, 1)} :
       result' = [done |-> TRUE, ok |-> r.ok,
                  err |-> IF r.ok THEN "" ELSE r.err,
                  pos |-> r.pos,
                  gn |-> IF r.ok THEN r.gn ELSE GeneralNumberData]
  /\ nops' = 1
  /\ UNCHANGED <<heap, b, a, a_before, a_text, last, v1, v2, v3, threads>>

NextNumber ==
  ScanNumber

SpecNumber ==
  InitNumber /\ [][NextNumber]_vars

(***************************************************************************)
(* String payloads.  a_text is a run of bytes; it is handed to the         *)
(* validating constructor Json(string), and, put between quotes, to the    *)
(* parser.  result keeps the error thrown, v2 the Value made.              *)
(***************************************************************************)
\* A, the continuation bytes 80 90 a0 bf, the lead bytes c0 c2 e0 ed f0 f4,
\* and ff
PayloadBytes ==
  {65, 128, 144, 160, 191, 192, 194, 224, 237, 240, 244, 255}

MaxPayload ==
  3

\* sequences of four bytes: U+10000, an overlong form, U+10FFFF, U+110000;
\* and the escapes é  😀  \ud800  \udc00
LongPayloads ==
  { <<240, 144, 128, 128>>, <<240, 128, 128, 128>>, <<244, 143, 191, 191>>,
    <<244, 144, 128, 128>>,
    Txt(<<"\\", "u", "0", "0", "e", "9">>),
    <<92, 117, 100, 56, 51, 100, 92, 117, 100, 101, 48, 48>>,
    <<92, 117, 100, 56, 48, 48>>,
    <<92, 117, 100, 99, 48, 48>> }

Payloads ==
  UNION {[1..k -> PayloadBytes] : k \in 0..MaxPayload} \cup LongPayloads

\* Json(string): the payload is validated, EncodeError thrown if that fails
Json_string(id, value) ==
  IF validate_utf8(value, 1)
    THEN [err |-> "", val |-> JSONElementString(id, value)]
    ELSE [err |-> "EncodeError", val |-> JSONElementNull]

NoString ==
  [done |-> FALSE, op |-> "", err |-> ""]

InitString ==
  \E text \in Payloads :
    /\ a_text = text
    /\ result = NoString
    /\ nops = 0
    /\ last = NoOp
    /\ v1 = JSONElementNull
    /\ v2 = JSONElementNull
    /\ v3 = JSONElementNull
    /\ heap = <<>>
    /\ b = 0
    /\ a = 0
    /\ a_before = JSONElementNull
    /\ threads = <<>>

\* Json v2(a_text)
ConstructString ==
  /\ ~result.done
  /\ \E r \in {Json_string(1, a_text)} :
       /\ result' = [done |-> TRUE, op |-> "construct", err |-> r.err]
       /\ v2' = r.val
  /\ nops' = 1
  /\ UNCHANGED <<heap, b, a, a_before, a_text, last, v1, v3, threads>>

\* v2 = Json::parse("\"" + a_text + "\"")
ParseString ==
  /\ ~result.done
  /\ \E r \in {context_parse(<<34>> \o a_text \o <<34>>, 0)} :
       /\ result' = [done |-> TRUE, op |-> "parse", err |-> r.err]
       /\ v2' = IF r.err = "" THEN r.val ELSE JSONElementNull
  /\ nops' = 1
  /\ UNCHANGED <<heap, b, a, a_before, a_text, last, v1, v3, threads>>

NextString ==
  \/ ConstructString
  \/ ParseString

SpecString ==
  InitString /\ [][NextString]_vars

(***************************************************************************)
(* Escapes.  last.cp is a Unicode scalar value above U+007F, a_text the    *)
(* string literal that writes it as an escape; the text is parsed into v2, *)
(* and v2 is written with write_ASCII_strings and with write_utf_strings.  *)
(***************************************************************************)
RECURSIVE Pow2(_)
\* 2^k for k in 0..20
Pow2(k) ==
  IF k = 0 THEN 1 ELSE 2 * Pow2(k - 1)

\* the ends of the ranges of the encodings, and the values next to the
\* powers of two
Codepoints ==
  { cp \in UNION {{Pow2(k) - 1, Pow2(k), Pow2(k) + 1, Pow2(k) + 233} : k \in 7..20}
             \cup {55295, 57344, 65533, 128512, 1114111} :
      /\ cp > 127
      /\ cp <= 1114111
      /\ cp \notin 55296..57343 }

\* four lower-case hexadecimal digits
LowerHex4(n) ==
  [i \in 1..4 |->
     LET d == (n \div Pow2(4 * (4 - i))) % 16
     IN IF d < 10 THEN 48 + d ELSE 87 + d]

\* the escape form of a scalar value: \uXXXX, or a surrogate pair
EscapeForm(cp) ==
  IF cp <= 65535 THEN <<92, 117>> \o LowerHex4(cp)
  ELSE <<92, 117>> \o LowerHex4(55296 + ((cp - 65536) \div 1024))
       \o <<92, 117>> \o LowerHex4(56320 + ((cp - 65536) % 1024))

\* the UTF-8 byte sequence of a scalar value (RFC 3629)
UTF8(cp) ==
  IF cp < 128 THEN <<cp>>
  ELSE IF cp < 2048 THEN <<192 + (cp \div 64), 128 + (cp % 64)>>
  ELSE IF cp < 65536
    THEN <<224 + (cp \div 4096), 128 + ((cp \div 64) % 64), 128 + (cp % 64)>>
  ELSE <<240 + (cp \div 262144), 128 + ((cp \div 4096) % 64),
         128 + ((cp \div 64) % 64), 128 + (cp % 64)>>

NoEscape ==
  [done |-> FALSE, op |-> "", err |-> "", text |-> <<>>]

InitEscape ==
  \E cp \in Codepoints :
    /\ a_text = <<34>> \o EscapeForm(cp) \o <<34>>
    /\ last = [cp |-> cp]
    /\ result = NoEscape
    /\ nops = 0
    /\ v1 = JSONElementNull
    /\ v2 = JSONElementNull
    /\ v3 = JSONElementNull
    /\ heap = <<>>
    /\ b = 0
    /\ a = 0
    /\ a_before = JSONElementNull
    /\ threads = <<>>

\* v2 = Json::parse(a_text)
ParseEscape ==
  /\ result.op = ""
  /\ \E r \in {context_parse(a_text, 0)} :
       /\ result' = [done |-> TRUE, op |-> "parse", err |-> r.err,
                     text |-> <<>>]
       /\ v2' = IF r.err = "" THEN r.val ELSE JSONElementNull
  /\ nops' = 1
  /\ UNCHANGED <<heap, b, a, a_before, a_text, last, v1, v3, threads>>

\* what writing v2 leaves alone
Written ==
  /\ result.op = "parse"
  /\ result.err = ""
  /\ nops' = nops + 1
  /\ UNCHANGED <<heap, b, a, a_before, a_text, last, v1, v2, v3, threads>>

\* oss << write_ASCII_strings(v2)
WriteASCII ==
  /\ Written
  /\ \E r \in {p_write(v2, EncodeOptions("TN_EXACT", FALSE, FALSE))} :
       result' = [done |-> TRUE, op |-> "ascii", err |-> r.err,
                  text |-> r.text]

\* oss << write_utf_strings(v2)
WriteUTF ==
  /\ Written
  /\ \E r \in {p_write(v2, EncodeOptions("TN_EXACT", FALSE, TRUE))} :
       result' = [done |-> TRUE, op |-> "utf", err |-> r.err,
                  text |-> r.text]

NextEscape ==
  \/ ParseEscape
  \/ WriteASCII
  \/ WriteUTF

SpecEscape ==
  InitEscape /\ [][NextEscape]_vars

(***************************************************************************)
(* Encoding of strings that may hold bad UTF-8.  The payload is made of a  *)
(* well-formed prefix, a run of bad bytes (or none) and a well-formed      *)
(* suffix; it is put in a Value by the constructor that does not validate, *)
(* as a string, as the element of an array or as the key of an object, and *)
(* the Value is written in each of the four modes.                         *)
(***************************************************************************)
\* the well-formed parts, as scalar values: nothing, A, é, 😀, Zé
GoodParts ==
  {<<>>, <<65>>, <<233>>, <<128512>>, <<90, 233>>}

\* the bad runs of TEST(Jsrl,EncodeErrors): a sequence cut short, a stray
\* continuation byte, a bad start byte alone and with continuation bytes, an
\* encoded surrogate, two sequences beyond U+10FFFF
BadRuns ==
  { <<240, 143>>, <<143>>, <<248>>, <<248, 143, 143>>, <<237, 160, 128>>,
    <<244, 144, 128, 128>>, <<247, 191, 191, 191>> }

Shapes ==
  {"string", "array", "key"}

RECURSIVE UTF8All(_)
\* the UTF-8 bytes of a sequence of scalar values
UTF8All(cps) ==
  IF cps = <<>> THEN <<>> ELSE UTF8(Head(cps)) \o UTF8All(Tail(cps))

\* the payload of a piece record [prefix, bad, suffix]
PayloadOf(piece) ==
  UTF8All(piece.prefix) \o piece.bad \o UTF8All(piece.suffix)

\* Json(payload, Json::ignore_bad_unicode), alone, in an array, or as a key
ShapedValue(shape, payload) ==
  CASE shape = "string" -> JSONElementString(1, payload)
    [] shape = "array" ->
         JSONElementArray(2, <<JSONElementString(1, payload)>>)
    [] shape = "key" ->
         JSONElementObject(2, <<[key |-> payload, val |-> JSONElementNull]>>)

InitEncode ==
  \E prefix \in GoodParts, bad \in BadRuns \cup {<<>>}, suffix \in GoodParts,
     shape \in Shapes :
    /\ last = [prefix |-> prefix, bad |-> bad, suffix |-> suffix,
               shape |-> shape]
    /\ v2 = ShapedValue(shape,
              PayloadOf([prefix |-> prefix, bad |-> bad, suffix |-> suffix]))
    /\ a_text = <<>>
    /\ result = [done |-> FALSE, fail_bad_utf8 |-> FALSE, write_utf |-> FALSE,
                 err |-> "", text |-> <<>>]
    /\ nops = 0
    /\ v1 = JSONElementNull
    /\ v3 = JSONElementNull
    /\ heap = <<>>
    /\ b = 0
    /\ a = 0
    /\ a_before = JSONElementNull
    /\ threads = <<>>

\* writing v2 with the given options
WriteWith(fail_bad_utf8, write_utf) ==
  /\ ~result.done
  /\ \E r \in {p_write(v2, EncodeOptions("TN_EXACT", fail_bad_utf8, write_utf))} :
       result' = [done |-> TRUE, fail_bad_utf8 |-> fail_bad_utf8,
                  write_utf |-> write_utf, err |-> r.err,
                  text |-> IF r.err = "" THEN r.text ELSE <<>>]
  /\ nops' = 1
  /\ UNCHANGED <<heap, b, a, a_before, a_text, last, v1, v2, v3, threads>>

\* oss << replace_bad_utf(v2), with ASCII or UTF-8 strings
WriteReplacing ==
  \E write_utf \in BOOLEAN : WriteWith(FALSE, write_utf)

\* oss << fail_bad_utf(v2), with ASCII or UTF-8 strings
WriteFailing ==
  \E write_utf \in BOOLEAN : WriteWith(TRUE, write_utf)

NextEncode ==
  \/ WriteReplacing
  \/ WriteFailing

SpecEncode ==
  InitEncode /\ [][NextEncode]_vars

(***************************************************************************)
(* GeneralNumber values, as every producer makes them: the scanner on a    *)
(* literal, the constructors from the integer types, from long double and  *)
(* from the four members; then operator<< on the value produced, read back *)
(* by parse(string), and the integer conversions.                          *)
(***************************************************************************)
MaxDigits ==
  3

\* literals at the ends of the exponent's range
ExtremeLiterals ==
  { <<49, 101, 51, 50, 55, 54, 54>>,              \* 1e32766
    <<49, 101, 51, 50, 55, 54, 55>>,              \* 1e32767
    <<49, 48, 48, 101, 51, 50, 55, 54, 53>>,      \* 100e32765
    <<49, 48, 48, 101, 51, 50, 55, 54, 52>>,      \* 100e32764
    <<49, 101, 45, 51, 50, 55, 54, 55>>,          \* 1e-32767
    <<49, 101, 45, 51, 50, 55, 54, 56>>,          \* 1e-32768
    <<48, 46, 49, 101, 45, 51, 50, 55, 54, 55>>,  \* 0.1e-32767
    <<48, 46, 48, 49, 101, 45, 51, 50, 55, 54, 55>>,      \* 0.01e-32767
    <<48, 46, 48, 48, 49, 101, 45, 51, 50, 55, 54, 55>>,  \* 0.001e-32767
    <<48, 46, 48, 48, 101, 45, 51, 50, 55, 54, 55>>,      \* 0.00e-32767
    <<45, 48, 46, 48, 49, 53, 48, 48>>,           \* -0.01500
    <<49, 50, 48, 48, 46, 53, 48, 69, 43, 50>>,   \* 1200.50E+2
    <<45, 48, 46, 48, 48, 48>>,                   \* -0.000
    <<48, 101, 57, 57, 57, 57, 57>> }             \* 0e99999

\* a literal of the digits ds before the point and fs after it
Lit(neg, ds, fs) ==
  (IF neg THEN <<45>> ELSE <<>>) \o DigitsText(ds) \o
  (IF fs = <<>> THEN <<>> ELSE <<46>> \o DigitsText(fs))

\* literals around the ends of long long and long long unsigned
IntegerLiterals ==
  UNION {
    {Lit(neg, LLONG_MAX.digits, fs), Lit(neg, MAXLL, fs),
     Lit(neg, <<9, 2, 2, 3, 3, 7, 2, 0, 3, 6, 8, 5, 4, 7, 7, 5, 8, 0, 9>>, fs),
     Lit(neg, <<9, 2, 2, 3, 3, 7, 2, 0, 3, 6, 8, 5, 4, 7, 7, 5, 8>>, fs),
     Lit(neg, <<9, 3>>, fs) \o <<101, 49, 55>>,
     Lit(neg, <<9>>, fs) \o <<101, 49, 56>>,
     Lit(neg, <<1>>, fs) \o <<101, 49, 57>>,
     Lit(neg, <<1>>, fs) \o <<101, 50, 48>>,
     Lit(neg, <<1, 2, 3>>, fs) \o <<101, 45, 49>>,
     Lit(neg, <<1, 2>>, fs) \o <<101, 45, 52>>,
     Lit(neg, <<1, 2, 3, 4>>, fs) \o <<101, 50>>,
     Lit(neg, MAXLLU, fs),
     Lit(neg, <<1, 8, 4, 4, 6, 7, 4, 4, 0, 7, 3, 7, 0, 9, 5, 5, 1, 6, 1, 6>>, fs),
     Lit(neg, <<1, 8, 4, 4, 6, 7, 4, 4, 0, 7, 3, 7, 0, 9, 5, 5, 1, 6, 1, 4>>, fs),
     Lit(neg, <<9>>, fs), Lit(neg, <<0>>, fs)}
      : neg \in BOOLEAN, fs \in {<<>>, <<5>>, <<4, 5>>} }

ExactTexts ==
  UNION {[1..k -> NumberBytes] : k \in 0..MaxLiteral}
    \cup ExtremeLiterals \cup IntegerLiterals

UnsignedArgs ==
  {0, 1, 7, 10, 100, 120, 1050, 90000, 2147483647}

SignedArgs ==
  UnsignedArgs \cup {-v : v \in UnsignedArgs}

LongDoubleArgs ==
  { FloatZero, FloatNaN, FloatInf(FALSE), FloatInf(TRUE),
    [cls |-> "fin", neg |-> FALSE, digits |-> <<1>>, exponent |-> 1],
    [cls |-> "fin", neg |-> TRUE, digits |-> <<2, 5>>, exponent |-> 1],
    [cls |-> "fin", neg |-> FALSE, digits |-> <<5>>, exponent |-> 0],
    [cls |-> "fin", neg |-> FALSE, digits |-> <<1, 2>>, exponent |-> 4],
    [cls |-> "fin", neg |-> TRUE, digits |-> <<7>>, exponent |-> -7],
    [cls |-> "fin", neg |-> FALSE, digits |-> <<3>>, exponent |-> 30] }

DigitArgs ==
  UNION {[1..k -> {0, 1, 5}] : k \in 0..MaxDigits}

ExponentArgs ==
  {INT16_MIN, INT16_MIN + 1, INT16_MIN + 2, -1, 0, 1, 2, INT16_MAX}

NoArgs ==
  [op |-> "", value |-> 0, f |-> FloatZero, is_decimal |-> FALSE,
   negative |-> FALSE, exponent |-> 0, digits |-> <<>>]

\* what a producer gave: the value, or the error it threw
Caught(r) ==
  [ok |-> r.ok, err |-> IF r.ok THEN "" ELSE r.err,
   gn |-> IF r.ok THEN r.gn ELSE GeneralNumberData]

NoExact ==
  [done |-> FALSE, ok |-> FALSE, err |-> "", pos |-> 1,
   gn |-> GeneralNumberData,
   written |-> FALSE, text |-> <<>>, back |-> Caught(GNError("")),
   converted |-> FALSE, ll |-> Wide(FALSE, <<>>), ull |-> Wide(FALSE, <<>>)]

InitExact ==
  /\ a_text = <<>>
  /\ last = NoArgs
  /\ result = NoExact
  /\ nops = 0
  /\ v1 = JSONElementNull
  /\ v2 = JSONElementNull
  /\ v3 = JSONElementNull
  /\ heap = <<>>
  /\ b = 0
  /\ a = 0
  /\ a_before = JSONElementNull
  /\ threads = <<>>

\* the GeneralNumber a producer returned in r, or the error it threw
Produced(op, text, args, r, pos) ==
  /\ ~result.done
  /\ a_text' = text
  /\ last' = [args EXCEPT !.op = op]
  /\ result' = [NoExact EXCEPT !.done = TRUE, !.ok = r.ok,
                               !.err = IF r.ok THEN "" ELSE r.err,
                               !.pos = pos,
                               !.gn = IF r.ok THEN r.gn ELSE GeneralNumberData]
  /\ nops' = 1
  /\ UNCHANGED <<heap, b, a, a_before, v1, v2, v3, threads>>

\* GeneralNumber::parse(sbuf) on a stream holding text
ParseExact ==
  \E text \in ExactTexts :
    \E r \in {GNParseAt(text, 1)} :
      Produced("parse", text, NoArgs, r, r.pos)

\* GeneralNumber(long long unsigned)
ConstructUnsigned ==
  \E value \in UnsignedArgs :
    Produced("unsigned", <<>>, [NoArgs EXCEPT !.value = value],
             [ok |-> TRUE, gn |-> GeneralNumberOfUnsigned(value)], 1)

\* GeneralNumber(long long)
ConstructSigned ==
  \E value \in SignedArgs :
    Produced("signed", <<>>, [NoArgs EXCEPT !.value = value],
             [ok |-> TRUE, gn |-> GeneralNumberOfSigned(value)], 1)

\* GeneralNumber(long double)
ConstructLongDouble ==
  \E f \in LongDoubleArgs :
    Produced("long double", <<>>, [NoArgs EXCEPT !.f = f],
             GeneralNumberOfLongDouble(f), 1)

\* GeneralNumber(is_decimal, negative, exponent, digits); the whole number
\* of INT16_MAX digits, which operator<< writes out in full, is left out
ConstructMembers ==
  \E is_decimal \in BOOLEAN, negative \in BOOLEAN,
     exponent \in ExponentArgs, digits \in DigitArgs :
    /\ exponent = INT16_MAX => is_decimal
    /\ Produced("members", <<>>,
                [NoArgs EXCEPT !.is_decimal = is_decimal,
                               !.negative = negative,
                               !.exponent = exponent, !.digits = digits],
                GeneralNumberCtor(is_decimal, negative, exponent, digits), 1)

\* oss << g, then GeneralNumber::parse(oss.str())
WriteExact ==
  /\ result.done
  /\ result.ok
  /\ ~result.written
  /\ \E text \in {GNText(result.gn)} :
       result' = [result EXCEPT !.written = TRUE, !.text = text,
                                !.back = Caught(GNParse(text))]
  /\ nops' = nops + 1
  /\ UNCHANGED <<heap, b, a, a_before, a_text, last, v1, v2, v3, threads>>

\* g.as_long_long() and g.as_long_long_unsigned()
Convert ==
  /\ result.done
  /\ result.ok
  /\ ~result.converted
  /\ \E ll \in GeneralNumber_as_long_long(result.gn) :
       result' = [result EXCEPT
                    !.converted = TRUE, !.ll = ll,
                    !.ull = GeneralNumber_as_long_long_unsigned(result.gn)]
  /\ nops' = nops + 1
  /\ UNCHANGED <<heap, b, a, a_before, a_text, last, v1, v2, v3, threads>>

NextExact ==
  \/ ParseExact
  \/ ConstructUnsigned
  \/ ConstructSigned
  \/ ConstructLongDouble
  \/ ConstructMembers
  \/ WriteExact
  \/ Convert

SpecExact ==
  InitExact /\ [][NextExact]_vars

(***************************************************************************)
(* Two strings, compared as string Values and ordered as the keys of an    *)
(* object.                                                                 *)
(***************************************************************************)
MaxString ==
  2

StringBytes ==
  {0, 65, 97, 127, 128, 195, 255}

Strings ==
  UNION {[1..k -> StringBytes] : k \in 0..MaxString}

NoOrder ==
  [compared |-> FALSE, c12 |-> 0, c21 |-> 0,
   sorted |-> FALSE, keys |-> <<>>, first |-> FALSE]

InitStrings ==
  /\ v1 \in {JSONElementString(1, l) : l \in Strings}
  /\ v2 \in {JSONElementString(2, r) : r \in Strings}
  /\ v3 = JSONElementNull
  /\ result = NoOrder
  /\ NotEditing
  /\ threads = <<>>

\* compare(v1, v2) and compare(v2, v1) of the two string Values
CompareStrings ==
  /\ ~result.compared
  /\ result' = [result EXCEPT !.compared = TRUE,
                              !.c12 = s_compare(v1, v2),
                              !.c21 = s_compare(v2, v1)]
  /\ UNCHANGED <<v1, v2, v3, editing, threads>>

\* Json(ObjectBody{{v1's string, null}, {v2's string, null}}): the keys of
\* the object in the order it keeps them, and CmpLt on the two pairs
OrderKeys ==
  /\ ~result.sorted
  /\ \E body \in {resort(<<[key |-> v1.s, val |-> 0],
                           [key |-> v2.s, val |-> 0]>>)} :
       result' = [result EXCEPT !.sorted = TRUE,
                                !.keys = [i \in 1..Len(body) |-> body[i].key],
                                !.first = StringLess(v1.s, v2.s)]
  /\ UNCHANGED <<v1, v2, v3, editing, threads>>

NextStrings ==
  \/ CompareStrings
  \/ OrderKeys

SpecStrings ==
  InitStrings /\ [][NextStrings]_vars

(***************************************************************************)
(* The reader as the program runs it: one step per call of a helper on     *)
(* the stream, the nested calls of read_array and read_object held as a    *)
(* stack of frames.  The machine's stack holds MaxFrames nested container  *)
(* calls; the reader keeps no count of its depth.                          *)
(***************************************************************************)
MaxText ==
  3

MaxFrames ==
  3

ReadBytes ==
  {91, 93, 123, 125, 44, 58, 34, 49, 32, 47}

ReadDocs ==
  {
    \* [null,1]
    <<91, 110, 117, 108, 108, 44, 49, 93>>,
    \* {"a":[true],"b":{}}
    <<123, 34, 97, 34, 58, 91, 116, 114, 117, 101, 93, 44, 34, 98, 34, 58, 123, 125, 125>>,
    \* [[],{"a":-2.5}]
    <<91, 91, 93, 44, 123, 34, 97, 34, 58, 45, 50, 46, 53, 125, 93>>,
    \* [[[1]]]
    <<91, 91, 91, 49, 93, 93, 93>>,
    \* [[[[1]]]]
    <<91, 91, 91, 91, 49, 93, 93, 93, 93>>,
    \* {"a":{"a":{"a":{}}}}
    <<123, 34, 97, 34, 58, 123, 34, 97, 34, 58, 123, 34, 97, 34, 58, 123, 125, 125, 125, 125>>,
    \* {"a":{"a":{"a":{"a":1}}}}
    <<123, 34, 97, 34, 58, 123, 34, 97, 34, 58, 123, 34, 97, 34, 58, 123, 34, 97, 34, 58, 49, 125, 125, 125, 125>>,
    \* [1 /* c */, 2 // x\n]
    <<91, 49, 32, 47, 42, 32, 99, 32, 42, 47, 44, 32, 50, 32, 47, 47, 32, 120, 10, 93>>,
    \* ["a
    <<91, 34, 97>>,
    \* [1 /* un
    <<91, 49, 32, 47, 42, 32, 117, 110>>,
    \* [[1, // un
    <<91, 91, 49, 44, 32, 47, 47, 32, 117, 110>>,
    \* [[[[[[
    <<91, 91, 91, 91, 91, 91>>,
    \* [{"a":[{"a":[]}]}]
    <<91, 123, 34, 97, 34, 58, 91, 123, 34, 97, 34, 58, 91, 93, 125, 93, 125, 93>>,
    \* [1,]
    <<91, 49, 44, 93>>,
    \* {"a":1,}
    <<123, 34, 97, 34, 58, 49, 44, 125>>,
    \* [tru]
    <<91, 116, 114, 117, 93>>,
    \* [1e99999]
    <<91, 49, 101, 57, 57, 57, 57, 57, 93>>,
    \* {"a" 1}
    <<123, 34, 97, 34, 32, 49, 125>> }

ReadTexts ==
  UNION {[1..k -> ReadBytes] : k \in 0..MaxText} \cup ReadDocs

NoRead ==
  [done |-> FALSE, outcome |-> "", phase |-> "value", pos |-> 1, from |-> 1,
   stack |-> <<>>, steps |-> 0]

InitRead ==
  /\ a_text \in ReadTexts
  /\ result = NoRead
  /\ nops = 0
  /\ last = NoOp
  /\ v1 = JSONElementNull
  /\ v2 = JSONElementNull
  /\ v3 = JSONElementNull
  /\ heap = <<>>
  /\ b = 0
  /\ a = 0
  /\ a_before = JSONElementNull
  /\ threads = <<>>

\* the state after a step that started at result.pos
Stepped(state) ==
  /\ result' = [state EXCEPT !.from = result.pos, !.steps = result.steps + 1]
  /\ UNCHANGED <<heap, b, a, a_before, a_text, last, nops, v1, v2, v3, threads>>

\* a throw: the exception leaves every frame
Throw(err, pos) ==
  [result EXCEPT !.done = TRUE, !.outcome = err, !.pos = pos]

\* a return of read_json with the stream at pos: to the loop of the
\* enclosing container, or to the caller of parse
Return(stack, pos) ==
  IF stack = <<>>
    THEN [result EXCEPT !.done = TRUE, !.outcome = "value", !.pos = pos,
                        !.stack = stack]
    ELSE [result EXCEPT !.pos = pos, !.stack = stack,
                        !.phase = IF stack[Len(stack)] = "array"
                                    THEN "array_sep" ELSE "object_sep"]

\* a call of read_array or read_object from read_json: a frame more, or
\* the end of the stack
Call(kind, pos) ==
  IF Len(result.stack) = MaxFrames
    THEN [result EXCEPT !.done = TRUE, !.outcome = "stack overflow",
                        !.pos = pos]
    ELSE [result EXCEPT !.pos = pos, !.stack = Append(result.stack, kind),
                        !.phase = IF kind = "array" THEN "array_open"
                                  ELSE "object_open"]

\* read_json, called by parse or through read_internal_json
ReadValue ==
  /\ ~result.done
  /\ result.phase = "value"
  /\ \E r \in {get_separator_byte(a_text, result.pos, TRUE)} :
       \E scalar \in {IF r.err # "" \/ r.byte \in {91, 123}
                         THEN ParseFail("", 0)
                       ELSE read_json(a_text, result.pos, TRUE, 0)} :
         Stepped(
           IF r.err = "StartEOFParseError" /\ result.stack # <<>>
             THEN Throw("BadEOFParseError", r.pos)
           ELSE IF r.err # "" THEN Throw(r.err, r.pos)
           ELSE IF r.byte = 91 THEN Call("array", r.pos)
           ELSE IF r.byte = 123 THEN Call("object", r.pos)
           ELSE IF scalar.err # "" THEN Throw(scalar.err, scalar.pos)
           ELSE Return(result.stack, scalar.pos))

\* read_array up to its loop
OpenArray ==
  /\ ~result.done
  /\ result.phase = "array_open"
  /\ \E r \in {get_separator_byte(a_text, result.pos, FALSE)} :
       Stepped(
         IF r.err # "" THEN Throw(r.err, r.pos)
         ELSE IF r.byte = 93
           THEN Return(SubSeq(result.stack, 1, Len(result.stack) - 1), r.pos)
         ELSE [result EXCEPT !.pos = r.pos - 1, !.phase = "value"])

\* the separator after an element of an array
ArraySeparator ==
  /\ ~result.done
  /\ result.phase = "array_sep"
  /\ \E c \in {get_separator_byte(a_text, result.pos, FALSE)} :
       \E pk \in {IF c.err = "" THEN peek_separator_byte(a_text, c.pos)
                   ELSE c} :
         Stepped(
           IF c.err # "" THEN Throw(c.err, c.pos)
           ELSE IF c.byte = 44
             THEN IF pk.err # "" THEN Throw(pk.err, pk.pos)
                  ELSE IF pk.byte = 93
                    THEN Throw("TrailingCommaParseError", pk.pos)
                  ELSE [result EXCEPT !.pos = pk.pos, !.phase = "value"]
           ELSE IF c.byte = 93
             THEN Return(SubSeq(result.stack, 1, Len(result.stack) - 1), c.pos)
           ELSE Throw("UnexpectedByteParseError", c.pos - 1))

\* read_object up to its loop
OpenObject ==
  /\ ~result.done
  /\ result.phase = "object_open"
  /\ \E r \in {get_separator_byte(a_text, result.pos, FALSE)} :
       Stepped(
         IF r.err # "" THEN Throw(r.err, r.pos)
         ELSE IF r.byte = 125
           THEN Return(SubSeq(result.stack, 1, Len(result.stack) - 1), r.pos)
         ELSE [result EXCEPT !.pos = r.pos - 1, !.phase = "object_key"])

\* read_object_key
ObjectKey ==
  /\ ~result.done
  /\ result.phase = "object_key"
  /\ \E key \in {read_object_key(a_text, result.pos)} :
       Stepped(
         IF key.err # "" THEN Throw(key.err, key.pos)
         ELSE [result EXCEPT !.pos = key.pos, !.phase = "object_colon"])

\* the separator after a key
ObjectColon ==
  /\ ~result.done
  /\ result.phase = "object_colon"
  /\ \E c \in {get_separator_byte(a_text, result.pos, FALSE)} :
       Stepped(
         IF c.err # "" THEN Throw(c.err, c.pos)
         ELSE IF c.byte # 58 THEN Throw("UnexpectedByteParseError", c.pos - 1)
         ELSE [result EXCEPT !.pos = c.pos, !.phase = "value"])

\* the separator after an element of an object
ObjectSeparator ==
  /\ ~result.done
  /\ result.phase = "object_sep"
  /\ \E c \in {get_separator_byte(a_text, result.pos, FALSE)} :
       Stepped(
         IF c.err # "" THEN Throw(c.err, c.pos)
         ELSE IF c.byte = 44
           THEN [result EXCEPT !.pos = c.pos, !.phase = "object_key"]
         ELSE IF c.byte = 125
           THEN Return(SubSeq(result.stack, 1, Len(result.stack) - 1), c.pos)
         ELSE Throw("UnexpectedByteParseError", c.pos - 1))

NextRead ==
  \/ ReadValue
  \/ OpenArray
  \/ ArraySeparator
  \/ OpenObject
  \/ ObjectKey
  \/ ObjectColon
  \/ ObjectSeparator

SpecRead ==
  InitRead /\ [][NextRead]_vars

(***************************************************************************)
(* Properties                                                              *)
(***************************************************************************)
RECURSIVE BytewiseLess(_, _)
\* lexicographic order of byte strings, bytes taken as 0..255
BytewiseLess(k1, k2) ==
  IF k2 = <<>> THEN FALSE
  ELSE IF k1 = <<>> THEN TRUE
  ELSE IF k1[1] # k2[1] THEN k1[1] < k2[1]
  ELSE BytewiseLess(Tail(k1), Tail(k2))

\* what a path that leads nowhere yields: no element has this identity
Absent ==
  [JSONElementNull EXCEPT !.id = -1]

RECURSIVE TreeAt(_, _)
\* the element of the Value v that path leads to, Absent if there is none
TreeAt(v, path) ==
  IF path = <<>> THEN v
  ELSE Let(TreeAt(v, Parent(path)), LAMBDA parent :
         LET step == path[Len(path)]
             at == IF step.kind = "index"
                     THEN IF parent.tt = TT_ARRAY THEN {step.index + 1} ELSE {}
                   ELSE IF parent.tt = TT_OBJECT
                     THEN {i \in 1..Len(parent.keys) : parent.keys[i] = step.key}
                   ELSE {}
         IN IF at \cap (1..Len(parent.elems)) = {} THEN Absent
            ELSE parent.elems[CHOOSE i \in at : TRUE])

\* the Value of b now
Now ==
  View(heap, b)

\* the allocations a Value is made of
RECURSIVE Allocations(_)
Allocations(v) ==
  {v.id} \cup UNION {Allocations(v.elems[i]) : i \in 1..Len(v.elems)}

\* C1: copy-on-write isolation: whatever operations were applied to b, the
\* handle a, which shares b's tree, compares equal to the Value it denoted
\* when it was taken and encodes to the same text.
C1_CowIsolation ==
  /\ s_compare(View(heap, a), a_before) = 0
  /\ encode(View(heap, a)).err = ""
  /\ encode(View(heap, a)).text = a_text

\* two edits of b were made, the second an assignment into the tree, and a
\* still shares allocations with b although the two Values differ
C1_Witness ==
  /\ nops = MaxOps
  /\ last.op = "assign"
  /\ last.err = ""
  /\ last.path # <<>>
  /\ a # b
  /\ Reach(heap, {a}) \cap Reach(heap, {b}) # {}
  /\ s_compare(View(heap, a), Now) # 0

ObjectOps ==
  {"assign_keys", "set_object", "construct", "parse"}

\* the proxy path of the object the last operation constructed
ObjectPath ==
  IF last.op = "assign" THEN Parent(last.path) ELSE last.path

\* the pairs supplied to that construction, in insertion order: the pairs
\* of the object replaced, then the pairs given
SuppliedPairs ==
  LET old == TreeAt(last.old, ObjectPath)
      kept == [i \in 1..Len(old.keys) |->
                 [key |-> old.keys[i], val |-> old.elems[i].id]]
  IN CASE last.op \in {"construct", "parse"} -> last.args
       [] last.op = "assign" ->
            Append(kept, [key |-> last.path[Len(last.path)].key,
                          val |-> last.value])
       [] OTHER -> kept \o last.args

\* the value of the last pair of pairs that has the key
LastOccurrence(pairs, key) ==
  LET i == CHOOSE i \in 1..Len(pairs) :
             /\ pairs[i].key = key
             /\ \A j \in (i + 1)..Len(pairs) : pairs[j].key # key
  IN pairs[i].val

IsObjectConstruction ==
  /\ last.err = ""
  /\ \/ last.op \in ObjectOps
     \/ /\ last.op = "assign"
        /\ last.path # <<>>
        /\ last.path[Len(last.path)].kind = "key"

\* C3: duplicate keys resolve last-wins: the object an operation constructs
\* has exactly the keys supplied, each once, and maps each key to the value
\* of its last-inserted occurrence.
C3_LastWins ==
  IsObjectConstruction =>
    LET obj == TreeAt(Now, ObjectPath)
        supplied == SuppliedPairs
    IN /\ obj.tt = TT_OBJECT
       /\ {obj.keys[i] : i \in 1..Len(obj.keys)}
            = {supplied[i].key : i \in 1..Len(supplied)}
       /\ Len(obj.keys)
            = Cardinality({supplied[i].key : i \in 1..Len(supplied)})
       /\ \A i \in 1..Len(obj.keys) :
            obj.elems[i].id = LastOccurrence(supplied, obj.keys[i])

\* a key was supplied twice with different values, beside another key
C3_Witness ==
  /\ IsObjectConstruction
  /\ \E i, j \in 1..Len(SuppliedPairs) :
       /\ i < j
       /\ SuppliedPairs[i].key = SuppliedPairs[j].key
       /\ SuppliedPairs[i].val # SuppliedPairs[j].val
  /\ Len(TreeAt(Now, ObjectPath).keys) >= 2

\* the last operation assigned at an array index: through the proxy, or by
\* set() with one index
IsIndexAssignment ==
  /\ last.err = ""
  /\ \/ /\ last.op = "assign"
        /\ last.path # <<>>
        /\ last.path[Len(last.path)].kind = "index"
     \/ /\ last.op = "set_array"
        /\ Len(last.args) = 1

\* the path of the array assigned into, the index and the value
ArrayPath ==
  IF last.op = "assign" THEN Parent(last.path) ELSE <<>>

AssignedIndex ==
  IF last.op = "assign" THEN last.path[Len(last.path)].index
  ELSE last.args[1].key

AssignedValue ==
  IF last.op = "assign" THEN last.value ELSE last.args[1].val

\* C9: array pad-on-extend: assigning x at index i of an array of length n
\* gives, for i >= n, an array of length i + 1 with the n original elements
\* first, nulls from n to i - 1 and x at i; for i < n the length stays n
\* and only element i changes.
C9_PadOnExtend ==
  IsIndexAssignment =>
    LET before == TreeAt(last.old, ArrayPath).elems
        after == TreeAt(Now, ArrayPath).elems
        n == Len(before)
        i == AssignedIndex
    IN /\ TreeAt(Now, ArrayPath).tt = TT_ARRAY
       /\ Len(after) = IF i >= n THEN i + 1 ELSE n
       /\ \A j \in 0..(n - 1) : j # i => after[j + 1].id = before[j + 1].id
       /\ \A j \in n..(i - 1) : after[j + 1] = JSONElementNull
       /\ after[i + 1].id = AssignedValue

\* a proxy assignment beyond the end of an array that has an element: a
\* null was padded in between
C9_Witness ==
  /\ IsIndexAssignment
  /\ last.op = "assign"
  /\ Len(TreeAt(last.old, ArrayPath).elems) >= 1
  /\ AssignedIndex > Len(TreeAt(last.old, ArrayPath).elems)
  /\ AssignedValue # 0

\* the child of a container a path step leads to
ChildAt(node, step) ==
  TreeAt(node, <<step>>)

\* the positions of a container: its indexes or its keys, as steps
StepsOf(node) ==
  IF node.tt = TT_OBJECT
    THEN {KeyStep(node.keys[i]) : i \in 1..Len(node.keys)}
    ELSE {IndexStep(i - 1) : i \in 1..Len(node.elems)}

IsPathAssignment ==
  /\ last.op = "assign"
  /\ last.err = ""
  /\ last.path # <<>>

\* C10: path-local update: after root[p1]...[pk] = x every ancestor on the
\* path is a fresh container of the same kind with the same positions (the
\* leaf container may gain the leaf key, or the leaf index and its padding),
\* the addressed element is x, and every element off the path is the same
\* shared allocation as in the old tree.
C10_PathLocal ==
  IsPathAssignment =>
    /\ TreeAt(Now, last.path).id = last.value
    /\ \A k \in 0..(Len(last.path) - 1) :
         LET before == TreeAt(last.old, SubSeq(last.path, 1, k))
             after == TreeAt(Now, SubSeq(last.path, 1, k))
             step == last.path[k + 1]
             gained == IF k < Len(last.path) - 1 THEN {}
                       ELSE IF step.kind = "key" THEN {step}
                       ELSE {IndexStep(j) : j \in Len(before.elems)..step.index}
         IN /\ after.id \notin Allocations(last.old)
            /\ after.tt = before.tt
            /\ StepsOf(after) = StepsOf(before) \cup gained
            /\ \A other \in StepsOf(before) \ {step} :
                 ChildAt(after, other).id = ChildAt(before, other).id
            /\ \A pad \in gained \ {step} : ChildAt(after, pad).id = 0

\* an assignment two levels down creating a new key, beside a container
\* that is off the path
C10_Witness ==
  /\ IsPathAssignment
  /\ Len(last.path) = 2
  /\ last.path[2].kind = "key"
  /\ last.path[2] \notin StepsOf(TreeAt(last.old, Parent(last.path)))
  /\ \E other \in StepsOf(last.old) \ {last.path[1]} :
       ChildAt(last.old, other).tt \in {TT_ARRAY, TT_OBJECT}

\* C6: the comparator is a strict total order over all Values: every
\* comparison returns and exactly one of a<b, a==b, a>b holds, compare(a,b)
\* is the negation of compare(b,a), < and == are transitive, and the six
\* operators agree with compare.
C6_StrictTotalOrder ==
  result.done =>
    /\ TERMINATED \notin {result.c12, result.c21, result.c23, result.c13}
    /\ result.c12 = -result.c21
    /\ (result.c12 < 0 /\ result.c23 < 0) => result.c13 < 0
    /\ (result.c12 = 0 /\ result.c23 = 0) => result.c13 = 0
    /\ operator_eq(v1, v2) <=> result.c12 = 0
    /\ operator_ne(v1, v2) <=> result.c12 # 0
    /\ operator_lt(v1, v2) <=> result.c12 < 0
    /\ operator_gt(v1, v2) <=> result.c12 > 0
    /\ operator_le(v1, v2) <=> result.c12 <= 0
    /\ operator_ge(v1, v2) <=> result.c12 >= 0

\* the number a numeric Value denotes: sign, significant digits, exponent
Denotes(v) ==
  LET mag == IF v.n < 0 THEN -v.n ELSE v.n
      number == CASE v.tt = TT_NUMBER -> [neg |-> v.f.neg, digits |-> v.f.digits,
                                          exponent |-> v.f.exponent]
                  [] v.tt = TT_NUMBER_GENERAL ->
                       [neg |-> v.g.negative, digits |-> v.g.digits,
                        exponent |-> v.g.exponent]
                  [] OTHER -> [neg |-> v.n < 0,
                               digits |-> StripTrailingZeros(NatDigits(mag)),
                               exponent |-> Len(NatDigits(mag))]
  IN IF number.digits = <<>> \/ number.digits = <<0>>
       THEN [neg |-> FALSE, digits |-> <<>>, exponent |-> 0]
       ELSE number

\* integral kind: unsigned, signed, or exact without point or exponent
IntegralKind(v) ==
  \/ v.tt \in {TT_NUMBER_INTEGER, TT_NUMBER_INTEGER_UNSIGNED}
  \/ v.tt = TT_NUMBER_GENERAL /\ ~v.g.is_decimal

\* decimal kind: a finite floating number, or exact marked as decimal
DecimalKind(v) ==
  \/ v.tt = TT_NUMBER /\ v.f.cls = "fin"
  \/ v.tt = TT_NUMBER_GENERAL /\ v.g.is_decimal

\* C7: numeric tie-break: of two numeric Values denoting the same number,
\* one of integral and one of decimal kind, the decimal one compares
\* strictly greater, whatever the sign.
C7_TieBreak ==
  (/\ result.done
   /\ IntegralKind(v1)
   /\ DecimalKind(v2)
   /\ Denotes(v1) = Denotes(v2)) =>
    /\ result.c12 = -1
    /\ result.c21 = 1

\* C4: round trip: parsing the exact-mode encoding of a Value built without
\* float-precision loss yields a Value that compares equal to it.
C4_RoundTrip ==
  (result.done /\ result.op = "encode_parse") =>
    /\ result.err = ""
    /\ result.compare = 0

\* C5: exact numeric fidelity: encoding the parse of a decimal literal with
\* more significant digits than a native float holds reproduces the literal
\* character for character.
C5_ExactFidelity ==
  (result.done /\ result.op = "parse_encode") =>
    /\ result.err = ""
    /\ result.text = a_text

RECURSIVE Preorder(_)
\* the allocations of a tree in the order encode visits them
Preorder(v) ==
  LET RECURSIVE Children(_)
      Children(i) ==
        IF i > Len(v.elems) THEN <<>>
        ELSE Preorder(v.elems[i]) \o Children(i + 1)
  IN <<v.id>> \o Children(1)

\* the store of the tree as it was constructed
Built ==
  Store(<<>>, a_before)

\* C8: concurrent-read safety: while writers edit their own handles onto the
\* shared tree, no element allocation of the tree is written or released, and
\* every reader observes each element exactly as it was constructed; a
\* finished encode has visited the whole tree as constructed.
C8_ConcurrentReadSafety ==
  /\ \A id \in DOMAIN Built : id \in DOMAIN heap /\ heap[id] = Built[id]
  /\ \A t \in Readers :
       /\ \A i \in 1..Len(threads[t].seen) :
            threads[t].seen[i] = ReadCell(Built, threads[t].seen[i].id)
       /\ (threads[t].mode = "encode" /\ threads[t].todo = <<>>) =>
            [i \in 1..Len(threads[t].seen) |-> threads[t].seen[i].id]
              = Preorder(a_before)

\* a reader is in the middle of the tree after a writer has replaced, in its
\* own handle, an element the reader has yet to read
C8_Witness ==
  \E r \in Readers, w \in Writers :
    /\ threads[w].edits >= 1
    /\ threads[w].handle # a
    /\ threads[r].mode = "encode"
    /\ threads[r].seen # <<>>
    /\ threads[r].todo # <<>>
    /\ \E i \in 1..Len(threads[r].todo) :
         /\ threads[r].todo[i] # 0
         /\ threads[r].todo[i] \notin Reach(heap, {threads[w].handle})

\* C11: trailing-comma rejection: a document in which a comma (and then
\* blanks or comments) stands before the closing bracket of an array or
\* object that has elements, at any depth, is rejected with
\* TrailingCommaParseError, by Json::parse and by stream extraction alike.
C11_TrailingCommaRejected ==
  (result.done /\ last.kind = "comma" /\ nops = 1) =>
    result.err = "TrailingCommaParseError"

\* the comma of a nested container, followed by a comment, was rejected
C11_Witness ==
  /\ result.done
  /\ last.kind = "comma"
  /\ last.at < Len(last.doc)
  /\ last.with = LineCommentText
  /\ result.err = "TrailingCommaParseError"

\* the receiver is a container of the kind the subscript requires
Addressable(v, step) ==
  IF step.kind = "index" THEN v.tt = TT_ARRAY ELSE v.tt = TT_OBJECT

\* the receiver has an element under the subscript
Present(v, step) ==
  /\ Addressable(v, step)
  /\ IF step.kind = "index"
       THEN step.index + 1 \in 1..Len(v.elems)
       ELSE \E i \in 1..Len(v.keys) : v.keys[i] = step.key

\* that element
Element(v, step) ==
  IF step.kind = "index"
    THEN v.elems[step.index + 1]
    ELSE v.elems[CHOOSE i \in 1..Len(v.keys) : v.keys[i] = step.key]

\* the Value of the default a get was given
DefaultValue(default) ==
  IF default = "null" THEN JSONElementNull
  ELSE JSONElementNumberIntegerUint(NewId(heap), 7)

TypeErrors ==
  {"CastTypeError", "CompoundTypeError"}

KeyErrors ==
  {"ArrayKeyError", "ObjectKeyError"}

\* what find and get hand out when they do not raise
LookupAnswer ==
  IF Present(v1, result.step)
    THEN /\ result.val = Element(v1, result.step)
         /\ result.op = "find" => result.found
    ELSE IF result.op = "find" THEN ~result.found
         ELSE result.val = DefaultValue(result.default)

\* C12 as stated: find and get never raise, whatever the kind of the
\* receiver and whatever the key or index: find yields the element or
\* 'absent', get the element or the supplied default.
C12_NeverRaise ==
  (result.done /\ result.op \in {"find", "get"}) =>
    (result.err = "" /\ LookupAnswer)

\* C12: find and get never raise a KeyError.  On an array looked up by
\* index, or an object looked up by key, they do not raise at all: find
\* yields the element or 'absent', get the element or the supplied default.
\* On any other receiver they raise a TypeError.
C12_NoKeyError ==
  (result.done /\ result.op \in {"find", "get"}) =>
    IF Addressable(v1, result.step)
      THEN result.err = "" /\ LookupAnswer
      ELSE result.err \in TypeErrors

C12_Witness ==
  /\ result.done /\ result.op = "get" /\ result.default = "number"
  /\ Addressable(v1, result.step) /\ ~Present(v1, result.step)
  /\ result.err = "" /\ result.val.n = 7

HasType(TYPE, v) ==
  CASE TYPE = "bool" -> v.tt = TT_BOOL
    [] TYPE = "string" -> v.tt = TT_STRING
    [] TYPE = "array" -> v.tt = TT_ARRAY
    [] TYPE = "object" -> v.tt = TT_OBJECT
    [] TYPE = "number_float" ->
         v.tt \in {TT_NUMBER, TT_NUMBER_GENERAL, TT_NUMBER_INTEGER,
                   TT_NUMBER_INTEGER_UNSIGNED}
    [] TYPE = "number_sint" ->
         v.tt \in {TT_NUMBER_INTEGER, TT_NUMBER_INTEGER_UNSIGNED}
    [] TYPE = "number_uint" -> v.tt = TT_NUMBER_INTEGER_UNSIGNED

\* C14: a typed lookup get_TYPE(key_or_index, default) on an array or an
\* object does not raise when the element is missing or has another type
\* than the one asked for: it returns the default in both cases, and the
\* value of the element when it is there with the type asked for.
C14_TypedDefault ==
  (result.done /\ result.op = "get_as" /\ Addressable(v1, result.step)) =>
    /\ result.err = ""
    /\ IF Present(v1, result.step)
            /\ HasType(result.type, Element(v1, result.step))
         THEN ~result.dflt /\ result.val = Element(v1, result.step)
         ELSE result.dflt

\* the position of the first '"' of text at or after pos
NextQuote(text, pos) ==
  CHOOSE q \in pos..Len(text) :
    text[q] = 34 /\ \A i \in pos..(q - 1) : text[i] # 34

\* the first byte of text after pos that is not a blank
NextNonBlank(text, pos) ==
  IF \A i \in (pos + 1)..Len(text) : text[i] = 32 THEN EOF
  ELSE text[CHOOSE p \in (pos + 1)..Len(text) :
              text[p] # 32 /\ \A i \in (pos + 1)..(p - 1) : text[i] = 32]

RECURSIVE InsertedKeys(_, _, _)
\* the keys of the outermost object of an object text without escapes, in
\* the order the text gives them
InsertedKeys(text, pos, depth) ==
  IF pos > Len(text) THEN <<>>
  ELSE IF text[pos] \in {91, 123} THEN InsertedKeys(text, pos + 1, depth + 1)
  ELSE IF text[pos] \in {93, 125} THEN InsertedKeys(text, pos + 1, depth - 1)
  ELSE IF text[pos] # 34 THEN InsertedKeys(text, pos + 1, depth)
  ELSE LET close == NextQuote(text, pos + 1)
       IN IF depth = 1 /\ NextNonBlank(text, close) = 58
            THEN <<SubSeq(text, pos + 1, close - 1)>>
                   \o InsertedKeys(text, close + 1, depth)
            ELSE InsertedKeys(text, close + 1, depth)

\* C15: iterating as_object() of an object yields its pairs in insertion
\* order: for the parsed text {"z": 1, "a": 2, "m": 3} the keys are visited
\* in the order z, a, m.
C15_InsertionOrder ==
  (result.done /\ result.op = "as_object" /\ result.err = "") =>
    result.what = InsertedKeys(a_text, 1, 0)

\* text holds the bytes first and second at pos
TwoAt(text, pos, first, second) ==
  /\ pos + 1 <= Len(text)
  /\ text[pos] = first
  /\ text[pos + 1] = second

RECURSIVE BlankOnly(_, _)
\* from pos on, text holds nothing but whitespace, block comments that are
\* closed and line comments that end with a newline
BlankOnly(text, pos) ==
  IF pos > Len(text) THEN TRUE
  ELSE IF text[pos] \in {32} \cup 9..13 THEN BlankOnly(text, pos + 1)
  ELSE IF TwoAt(text, pos, 47, 42)
    THEN /\ \E j \in (pos + 2)..Len(text) : TwoAt(text, j, 42, 47)
         /\ BlankOnly(text,
              2 + CHOOSE j \in (pos + 2)..Len(text) :
                    /\ TwoAt(text, j, 42, 47)
                    /\ \A i \in (pos + 2)..(j - 1) : ~TwoAt(text, i, 42, 47))
  ELSE IF TwoAt(text, pos, 47, 47)
    THEN /\ \E j \in (pos + 2)..Len(text) : text[j] = 10
         /\ BlankOnly(text,
              1 + CHOOSE j \in (pos + 2)..Len(text) :
                    text[j] = 10 /\ \A i \in (pos + 2)..(j - 1) : text[i] # 10)
  ELSE FALSE

\* the text has no comment that is malformed or left open
WellCommented(var) ==
  /\ var.kind # "badcomment"
  /\ ~(var.kind = "comment" /\ var.with = OpenLineCommentText)

\* the text ends inside its value: a proper, non-empty prefix of a document
\* every proper prefix of which is incomplete
EndsInsideValue(var) ==
  var.kind = "cut" /\ var.at > 0

\* C16: an extraction raises StartEOFParseError exactly when the input ends
\* before any byte of the value was read (only whitespace and comments
\* remained), and BadEOFParseError exactly when the input ends after the
\* value has begun (inside an array, object, string, number, keyword or
\* escape); after successful extractions the extraction at the end of the
\* input raises the first kind.
C16_EofKinds ==
  (result.done /\ result.op = "extract" /\ WellCommented(last)) =>
    /\ result.err = "StartEOFParseError" <=> BlankOnly(a_text, result.from)
    /\ result.err = "BadEOFParseError" <=>
         (EndsInsideValue(last) /\ result.from = 1)

RECURSIVE AfterBlanks(_, _)
\* the position of the first byte at or after pos that is neither
\* whitespace nor inside a comment that is complete
AfterBlanks(text, pos) ==
  IF pos > Len(text) THEN pos
  ELSE IF text[pos] \in {32} \cup 9..13 THEN AfterBlanks(text, pos + 1)
  ELSE IF /\ TwoAt(text, pos, 47, 42)
          /\ \E j \in (pos + 2)..Len(text) : TwoAt(text, j, 42, 47)
    THEN AfterBlanks(text,
           2 + CHOOSE j \in (pos + 2)..Len(text) :
                 /\ TwoAt(text, j, 42, 47)
                 /\ \A i \in (pos + 2)..(j - 1) : ~TwoAt(text, i, 42, 47))
  ELSE IF /\ TwoAt(text, pos, 47, 47)
          /\ \E j \in (pos + 2)..Len(text) : text[j] = 10
    THEN AfterBlanks(text,
           1 + CHOOSE j \in (pos + 2)..Len(text) :
                 text[j] = 10 /\ \A i \in (pos + 2)..(j - 1) : text[i] # 10)
  ELSE pos

\* the value the reader takes from the start of the text
ValueRead ==
  read_json(a_text, 1, FALSE, 0)

\* C17 as stated: parse(text) raises TrailingBytesError if and only if,
\* after one complete value, some byte remains that is neither whitespace
\* nor part of a comment; otherwise it returns the value.
C17_TrailingIff ==
  (result.done /\ result.op = "parse" /\ ValueRead.err = "") =>
    IF BlankOnly(a_text, ValueRead.pos)
      THEN result.err = "" /\ v2 = ValueRead.val
      ELSE result.err = "TrailingBytesParseError"

\* C17: when the reader has read one complete value from the start of the
\* text, parse(text) looks at the first byte left after the whitespace and
\* the complete comments that follow the value: it returns the value when
\* nothing is left, raises TrailingBytesError if and only if a byte other
\* than '/' is left, and raises the error of the comment (unexpected byte
\* or bad end of input) when a '/' is left that starts no complete comment.
C17_TrailingBytes ==
  (result.done /\ result.op = "parse" /\ ValueRead.err = "") =>
    \E p \in {AfterBlanks(a_text, ValueRead.pos)} :
      /\ p > Len(a_text) <=> result.err = ""
      /\ result.err = "" => v2 = ValueRead.val
      /\ (p <= Len(a_text) /\ a_text[p] # 47) <=>
           result.err = "TrailingBytesParseError"
      /\ (p <= Len(a_text) /\ a_text[p] = 47) <=>
           result.err \in {"UnexpectedByteParseError", "BadEOFParseError"}

C17_Witness ==
  /\ result.done /\ result.op = "parse"
  /\ last.kind = "trailing" /\ Head(last.with) = 47
  /\ result.err = "TrailingBytesParseError"

\* the Value the document parses to without the comment
Uncommented ==
  context_parse(Join(last.doc), 0)

\* C18 as stated: a '//' line comment or a '/* */' block comment put
\* where whitespace is allowed (before the first token, between two tokens,
\* after the last token) yields a text that parses to an equal Value.
C18_Transparent ==
  (result.done /\ result.op = "parse" /\ last.kind = "comment") =>
    /\ result.err = ""
    /\ Uncommented.err = ""
    /\ operator_eq(v2, Uncommented.val)

\* C18: a block comment closed by '*/', or a line comment ended by a
\* newline, put where whitespace is allowed (before the first token,
\* between two tokens, after the last token) yields a text that parses to
\* an equal Value.
C18_CompleteCommentTransparent ==
  (/\ result.done /\ result.op = "parse" /\ last.kind = "comment"
   /\ last.with \in {BlockCommentText, LineCommentText}) =>
    /\ result.err = ""
    /\ Uncommented.err = ""
    /\ operator_eq(v2, Uncommented.val)

C18_Witness ==
  /\ result.done /\ result.op = "parse" /\ last.kind = "comment"
  /\ last.with = LineCommentText /\ last.at \in 1..(Len(last.doc) - 1)
  /\ result.err = "" /\ v2.tt = TT_OBJECT

\* \d+
IsDigits(s) ==
  s # <<>> /\ \A i \in 1..Len(s) : s[i] \in 48..57

\* 0|[1-9]\d*
IntegerPart(s) ==
  s = <<48>> \/ (IsDigits(s) /\ s[1] # 48)

\* \.\d+
FractionPart(s) ==
  Len(s) >= 2 /\ s[1] = 46 /\ IsDigits(Tail(s))

\* the digits of an exponent [eE][+-]?\d+
ExponentDigits(s) ==
  IF Len(s) >= 2 /\ s[2] \in {43, 45} THEN SubSeq(s, 3, Len(s)) ELSE Tail(s)

\* [eE][+-]?\d+
ExponentPart(s) ==
  Len(s) >= 2 /\ s[1] \in {101, 69} /\ IsDigits(ExponentDigits(s))

\* (0|[1-9]\d*)(\.\d+)?([eE][+-]?\d+)?
UnsignedLiteral(s) ==
  \E i \in 1..Len(s) :
    \E j \in i..Len(s) :
      /\ IntegerPart(SubSeq(s, 1, i))
      /\ j = i \/ FractionPart(SubSeq(s, i + 1, j))
      /\ j = Len(s) \/ ExponentPart(SubSeq(s, j + 1, Len(s)))

\* -?(0|[1-9]\d*)(\.\d+)?([eE][+-]?\d+)?
NumberLiteral(s) ==
  /\ s # <<>>
  /\ UnsignedLiteral(IF s[1] = 45 THEN Tail(s) ELSE s)

\* the length of the longest prefix of text that is a literal, 0 if none
LongestLiteral(text) ==
  SetMax({0} \cup {n \in 1..Len(text) : NumberLiteral(SubSeq(text, 1, n))})

Holds(s, bytes) ==
  \E i \in 1..Len(s) : s[i] \in bytes

\* after the longest literal comes what the scanner rejects: a digit (the
\* literal is a zero), a '.' or an exponent marker that no digit completes
Dangling(text) ==
  LET n == LongestLiteral(text)
      literal == SubSeq(text, 1, n)
  IN /\ n < Len(text)
     /\ \/ text[n + 1] \in 48..57
        \/ text[n + 1] = 46 /\ ~Holds(literal, {46, 101, 69})
        \/ text[n + 1] \in {101, 69} /\ ~Holds(literal, {101, 69})

RECURSIVE Decimal(_)
\* the number a run of at most five digits writes
Decimal(s) ==
  IF s = <<>> THEN 0 ELSE 10 * Decimal(SubSeq(s, 1, Len(s) - 1)) + s[Len(s)] - 48

\* the digits of the exponent the longest literal writes, <<>> if none
WrittenExponent(text) ==
  LET literal == SubSeq(text, 1, LongestLiteral(text))
  IN IF ~Holds(literal, {101, 69}) THEN <<>>
     ELSE ExponentDigits(
            SubSeq(literal, CHOOSE i \in 1..Len(literal) : literal[i] \in {101, 69},
                   Len(literal)))

\* C19: the scanner accepts exactly -?(0|[1-9]\d*)(\.\d+)?([eE][+-]?\d+)?
\* while the exponent has fewer digits than 32767: it consumes the longest such prefix and
\* leaves the next byte unread; it rejects a text that starts with no
\* literal (a '-' without digit included), a leading zero followed by
\* digits, and a '.' or an exponent marker with no digit after it.  A
\* literal whose exponent is beyond 16 bits is rejected.
C19_NumberGrammar ==
  result.done =>
    /\ Len(WrittenExponent(a_text)) < Len(<<3, 2, 7, 6, 7>>) =>
         /\ result.ok <=> (LongestLiteral(a_text) > 0 /\ ~Dangling(a_text))
         /\ result.ok => result.pos = LongestLiteral(a_text) + 1
         /\ result.ok => (result.gn.negative => a_text[1] = 45)
    /\ Decimal(WrittenExponent(a_text)) > INT16_MAX => ~result.ok

C19_Witness ==
  /\ result.done /\ result.ok
  /\ a_text = <<45, 49, 120>>
  /\ result.pos = 3 /\ result.gn.negative

\* a continuation byte 80..bf
Tail8(byte) ==
  byte \in 128..191

\* the length of the well-formed UTF-8 sequence (RFC 3629) that s starts
\* with, 0 if it starts with none
WellFormedSequence(s) ==
  LET at(i) == IF i <= Len(s) THEN s[i] ELSE 0
  IN IF at(1) \in 0..127 /\ Len(s) >= 1 THEN 1
     ELSE IF at(1) \in 194..223 /\ Tail8(at(2)) THEN 2
     ELSE IF \/ at(1) = 224 /\ at(2) \in 160..191 /\ Tail8(at(3))
             \/ at(1) \in 225..236 /\ Tail8(at(2)) /\ Tail8(at(3))
             \/ at(1) = 237 /\ at(2) \in 128..159 /\ Tail8(at(3))
             \/ at(1) \in 238..239 /\ Tail8(at(2)) /\ Tail8(at(3))
       THEN 3
     ELSE IF \/ at(1) = 240 /\ at(2) \in 144..191 /\ Tail8(at(3)) /\ Tail8(at(4))
             \/ at(1) \in 241..243 /\ Tail8(at(2)) /\ Tail8(at(3)) /\ Tail8(at(4))
             \/ at(1) = 244 /\ at(2) \in 128..143 /\ Tail8(at(3)) /\ Tail8(at(4))
       THEN 4
     ELSE 0

RECURSIVE WellFormedUTF8(_)
\* s is a run of well-formed UTF-8 sequences
WellFormedUTF8(s) ==
  IF s = <<>> THEN TRUE
  ELSE /\ WellFormedSequence(s) > 0
       /\ WellFormedUTF8(SubSeq(s, WellFormedSequence(s) + 1, Len(s)))

\* C20: every string payload of a Value made by the parser or by the
\* validating constructor is well-formed UTF-8: no invalid lead or
\* continuation byte, no truncated or overlong sequence, no surrogate and
\* no codepoint above U+10FFFF.
C20_WellFormedPayload ==
  (result.done /\ result.err = "") =>
    (v2.tt = TT_STRING /\ WellFormedUTF8(v2.s))

\* C21: the escape form of a scalar value above U+007F, written with
\* lowercase hex digits, parses without error; writing the result with
\* escapes reproduces the escape form, and writing it as UTF-8 yields the
\* UTF-8 byte sequence of the scalar value, four bytes above U+FFFF.
C21_EscapeRoundTrip ==
  /\ result.done => result.err = ""
  /\ result.op = "ascii" => result.text = a_text
  /\ result.op = "utf" =>
       /\ result.text = <<34>> \o UTF8(last.cp) \o <<34>>
       /\ last.cp > 65535 => Len(result.text) = 6

C21_Witness ==
  /\ result.op = "ascii" /\ last.cp = 128512
  /\ result.text = <<34, 92, 117, 100, 56, 51, 100, 92, 117, 100, 101, 48, 48, 34>>

RECURSIVE WrittenCodepoints(_, _)
\* the text that writes a sequence of scalar values above U+001F, none of
\* them '"' or '\', in a string literal
WrittenCodepoints(cps, write_utf) ==
  IF cps = <<>> THEN <<>>
  ELSE (IF write_utf \/ Head(cps) < 128 THEN UTF8(Head(cps))
        ELSE EscapeForm(Head(cps)))
       \o WrittenCodepoints(Tail(cps), write_utf)

\* the scalar values of the payload with U+FFFD in place of the bad run
Repaired(piece) ==
  piece.prefix \o (IF piece.bad = <<>> THEN <<>> ELSE <<65533>>) \o piece.suffix

\* the text of the Value of that shape around a string literal
ShapedText(shape, literal) ==
  CASE shape = "string" -> literal
    [] shape = "array" -> <<91>> \o literal \o <<93>>
    [] shape = "key" -> <<123>> \o literal \o <<58>> \o Txt(<<"n", "u", "l", "l">>) \o <<125>>

\* C22: encoding raises an EncodeError if and only if the fail-on-bad-UTF-8
\* mode is selected and some string of the Value holds malformed UTF-8; in
\* replace mode it never raises and writes one U+FFFD for the malformed
\* run, every well-formed codepoint before and after it unchanged.
C22_EncodeErrors ==
  result.done =>
    /\ result.err # "" <=> (result.fail_bad_utf8 /\ last.bad # <<>>)
    /\ result.err # "" =>
         result.err \in {"EncodeByteError", "EncodeCodepointError"}
    /\ result.err = "" =>
         result.text =
           ShapedText(last.shape,
             <<34>> \o WrittenCodepoints(Repaired(last), result.write_utf)
                    \o <<34>>)

\* the digits of a literal's mantissa: its bytes before the exponent marker,
\* sign and point left out
Mantissa(literal) ==
  LET marks == {i \in 1..Len(literal) : literal[i] \in {101, 69}}
      stop  == IF marks = {} THEN Len(literal) + 1
               ELSE CHOOSE i \in marks : \A j \in marks : i <= j
  IN SelectSeq(SubSeq(literal, 1, stop - 1), LAMBDA c : c \in 48..57)

\* the literal the scanner consumed
Literal ==
  SubSeq(a_text, 1, result.pos - 1)

\* the value handed to the producer is zero
ValueIsZero ==
  CASE last.op = "parse" -> \A i \in 1..Len(Mantissa(Literal)) :
                              Mantissa(Literal)[i] = 48
    [] last.op = "unsigned" -> last.value = 0
    [] last.op = "signed" -> last.value = 0
    [] last.op = "long double" -> last.f.digits = <<>>
    [] OTHER -> \A i \in 1..Len(last.digits) : last.digits[i] = 0

\* C23: every GeneralNumber the scanner or a constructor produces is in
\* normal form: its digits are empty if and only if its value is zero, a
\* non-empty digit sequence begins and ends with a non-zero digit, and a
\* zero is never negative.
C23_NormalForm ==
  (result.done /\ result.ok) =>
    LET g == result.gn
    IN /\ g.digits = <<>> <=> ValueIsZero
       /\ g.digits # <<>> => (g.digits[1] # 0 /\ g.digits[Len(g.digits)] # 0)
       /\ g.digits = <<>> => ~g.negative

C23_Witness ==
  /\ last.op = "parse"
  /\ a_text = <<45, 48, 46, 48, 49, 53, 48, 48>>
  /\ result.ok
  /\ result.gn.digits = <<1, 5>>
  /\ result.gn.negative

\* the literal a text starts with
WrittenLiteral ==
  SubSeq(a_text, 1, LongestLiteral(a_text))

\* the number of mantissa digits a literal writes before its point
IntegerDigits(literal) ==
  LET stops == {i \in 1..Len(literal) : literal[i] \in {46, 101, 69}}
      stop  == IF stops = {} THEN Len(literal) + 1
               ELSE CHOOSE i \in stops : \A j \in stops : i <= j
  IN Len(SelectSeq(SubSeq(literal, 1, stop - 1), LAMBDA c : c \in 48..57))

\* the exponent a literal writes, 0 if it writes none
ExponentValue(literal) ==
  LET marks == {i \in 1..Len(literal) : literal[i] \in {101, 69}}
  IN IF marks = {} THEN 0
     ELSE LET m == CHOOSE i \in marks : TRUE
              magnitude == Decimal(ExponentDigits(SubSeq(literal, m, Len(literal))))
          IN IF literal[m + 1] = 45 THEN -magnitude ELSE magnitude

\* the zeros a run of digit bytes starts with
RECURSIVE ZeroBytes(_)
ZeroBytes(s) ==
  IF s # <<>> /\ s[1] = 48 THEN 1 + ZeroBytes(Tail(s)) ELSE 0

\* the position of the decimal point of the value handed in, counted from
\* its first non-zero digit
TruePoint ==
  IF last.op = "parse"
    THEN IntegerDigits(WrittenLiteral) + ExponentValue(WrittenLiteral)
           - ZeroBytes(Mantissa(WrittenLiteral))
    ELSE last.exponent - LeadingZeros(last.digits)

\* the value handed to the producer is zero, by what was written
ValueIsZeroWritten ==
  IF last.op = "parse"
    THEN \A i \in 1..Len(Mantissa(WrittenLiteral)) : Mantissa(WrittenLiteral)[i] = 48
    ELSE \A i \in 1..Len(last.digits) : last.digits[i] = 0

\* C24: when the scanner or the four-member constructor is handed a
\* non-zero value whose decimal point, counted from the first non-zero
\* digit, lies outside INT16_MIN..INT16_MAX, or a literal whose written
\* exponent exceeds INT16_MAX, it fails with NumberParseError; every value
\* it does produce stores exactly that position as its exponent.
C24_ExponentRange ==
  (/\ result.done
   /\ last.op \in {"parse", "members"}
   /\ last.op = "parse" => (LongestLiteral(a_text) > 0 /\ ~Dangling(a_text))) =>
    /\ (~ValueIsZeroWritten /\ TruePoint \notin INT16_MIN..INT16_MAX) =>
         (~result.ok /\ result.err = "NumberParseError")
    /\ (last.op = "parse" /\ Decimal(WrittenExponent(a_text)) > INT16_MAX) =>
         (~result.ok /\ result.err = "NumberParseError")
    /\ (result.ok /\ ~ValueIsZeroWritten) =>
         (/\ result.gn.digits # <<>>
          /\ result.gn.exponent = TruePoint
          /\ result.gn.exponent \in INT16_MIN..INT16_MAX)

\* 100e32765 needs the exponent 32768 and is refused
C24_Witness ==
  /\ last.op = "parse"
  /\ a_text = <<49, 48, 48, 101, 51, 50, 55, 54, 53>>
  /\ TruePoint = INT16_MAX + 1
  /\ ~result.ok

\* C25: for every GeneralNumber g the scanner produces, writing g with
\* operator<< and parsing the text written succeeds and gives a value with
\* the sign, digits, exponent and is_decimal flag of g.
C25_WriteParse ==
  (last.op = "parse" /\ result.written) =>
    (result.back.ok /\ result.back.gn = result.gn)

\* the digits of the integer part of the value the literal writes, <<>> for
\* 0; a value of more than 20 integer digits is cut to 21 digits
IntegerMagnitude(literal) ==
  LET m == Mantissa(literal)
      z == ZeroBytes(m)
      significant == SubSeq(m, z + 1, Len(m))
      n == IntegerDigits(literal) + ExponentValue(literal) - z
  IN IF significant = <<>> \/ n <= 0 THEN <<>>
     ELSE [i \in 1..(IF n > Len(MAXLLU) THEN Len(MAXLLU) + 1 ELSE n) |->
             IF i <= Len(significant) THEN significant[i] - 48 ELSE 0]

\* C26: as_long_long returns the integer part of the value when it lies in
\* LLONG_MIN..LLONG_MAX (LLONG_MIN itself included), LLONG_MIN below and
\* LLONG_MAX above; as_long_long_unsigned returns the integer part when it
\* lies in 0..ULLONG_MAX, ULLONG_MAX above and 0 for a negative value; both
\* return 0 for a value with a negative exponent; no step on the way
\* overflows.
C26_Saturate ==
  (last.op = "parse" /\ result.converted) =>
    LET magnitude == IntegerMagnitude(Literal)
        negative  == Literal[1] = 45
    IN /\ ~result.ll.trap
       /\ ~result.ll.wrapped
       /\ result.ll =
            (IF magnitude = <<>> THEN Wide(FALSE, <<>>)
             ELSE IF negative
               THEN IF DigitsGreater(magnitude, MAXLL) THEN LLONG_MIN
                    ELSE Wide(TRUE, magnitude)
             ELSE IF DigitsGreater(magnitude, LLONG_MAX.digits) THEN LLONG_MAX
                  ELSE Wide(FALSE, magnitude))
       /\ result.ull =
            (IF magnitude = <<>> \/ negative THEN Wide(FALSE, <<>>)
             ELSE IF DigitsGreater(magnitude, MAXLLU) THEN ULLONG_MAX
             ELSE Wide(FALSE, magnitude))
       /\ result.gn.exponent < 0 =>
            (result.ll = Wide(FALSE, <<>>) /\ result.ull = Wide(FALSE, <<>>))

\* C27: when an operation of the JMod proxy throws (CastTypeError because
\* the addressed element or one on the way is not the container the
\* operation needs, ArrayKeyError or ObjectKeyError because a step of the
\* path is absent), the variable the proxy was made from holds the Value,
\* made of the allocations, it held before the call, and so does the handle
\* a that shares its tree.
C27_FailureAtomic ==
  last.err # "" =>
    /\ View(heap, b) = last.old
    /\ Snapshot(heap, a) = a_before
    /\ DOMAIN heap = Reach(heap, {a, b})

\* an assignment through a key was refused after earlier edits, while a
\* holds another Value than b
C27_Witness ==
  /\ last.op = "assign"
  /\ last.err = "CastTypeError"
  /\ nops >= 2
  /\ a # b
  /\ View(heap, b).tt = TT_ARRAY

\* C28: two string Values compare by the lexicographic order of their
\* bytes taken as 0..255, a proper prefix before its extensions, and that
\* is the order the two strings have as keys of an object, for all bytes,
\* those from 0x80 up included.
C28_StringOrder ==
  /\ result.compared =>
       /\ result.c12 < 0 <=> BytewiseLess(v1.s, v2.s)
       /\ result.c12 = 0 <=> v1.s = v2.s
       /\ result.c21 = -result.c12
  /\ (result.compared /\ result.sorted) =>
       /\ result.c12 < 0 <=> result.first
       /\ result.c12 < 0 <=> result.keys = <<v1.s, v2.s>>
       /\ result.c12 > 0 <=> result.keys = <<v2.s, v1.s>>

\* the errors Json::parse raises
ParseErrors ==
  {"StartEOFParseError", "BadEOFParseError", "UnexpectedByteParseError",
   "TrailingCommaParseError", "NumberParseError", "UTFParseError"}

\* C29: every parse of a finite input comes to an end, with a Value or a
\* ParseError: while it runs a step is always possible, it takes no more
\* than two steps for each byte of the input, the stream position never
\* goes back past the one byte a step put back, and the calls nested at
\* any time are no more than the input has bytes; this for every input,
\* containers nested to any depth and unterminated strings, comments and
\* containers included.
C29_Terminates ==
  /\ result.pos >= result.from
  /\ result.pos <= Len(a_text) + 1
  /\ result.steps <= 2 * Len(a_text) + 1
  /\ Len(result.stack) <= Len(a_text)
  /\ ~result.done => ENABLED NextRead
  /\ result.done => result.outcome \in {"value"} \cup ParseErrors

\* C30: no operation ends the process: compare, declared noexcept, returns
\* -1, 0 or 1 for every pair of Values, a floating Value holding NaN or an
\* infinity against an exact-decimal Value included.
C30_CompareReturns ==
  result.done => result.c12 \in {-1, 0, 1}

====
